---- MODULE Spec2Model ----
(***************************************************************************)
(* Model of the content-based publish/subscribe matcher                    *)
(* (src/common/subscription_matcher.py), of the broker that drives it     *)
(* (src/brokers/broker.py: its workers, start() and stop()) and of the     *)
(* management requests of the subscriber (src/subscribers/subscriber.py).  *)
(*                                                                         *)
(* Representation.                                                         *)
(*  - A Python str whose characters the code inspects (field names,        *)
(*    condition values, string fields of events) is a sequence of          *)
(*    one-character strings; Ord gives the code point order.               *)
(*  - A Python float is an integer number of hundredths (4.0 is 400); an   *)
(*    aggregate is the exact rational [num, den] in hundredths.            *)
(*  - A Python dict is a sequence of [k, v] entries in insertion order.    *)
(*  - None is the record None.                                             *)
(***************************************************************************)
EXTENDS Integers, Sequences, FiniteSets, TLC

VARIABLES
    simple_subscriptions,   \* SubscriptionMatcher.simple_subscriptions
    complex_subscriptions,  \* SubscriptionMatcher.complex_subscriptions
    window_managers,        \* SubscriptionMatcher.window_managers
    subscription_contexts,  \* SubscriptionMatcher.subscription_contexts
    last,                   \* the last matcher call: its name, arguments and outcome
    samples,                \* history: per complex id and windowed field, the samples since the id was added
    emitted,                \* history: per complex id and windowed field, the notifications since the id was added
    removed,                \* history: ids removed and not added again since
    pc,                     \* broker workers: position of each worker
    it,                     \* broker workers: locals of the ingress worker inside match_event
    req,                    \* broker workers: the control request being served
    seen,                   \* broker workers: what the ingress worker observed
    budget,                 \* broker workers: messages still to arrive on each socket
    subscriber_addresses,   \* EcommerceBroker.subscriber_addresses
    events_processed,       \* EcommerceBroker.events_processed
    notifications_sent,     \* EcommerceBroker.notifications_sent
    egress,                 \* the sends on subscriber_socket for the last event handled, each with its outcome
    response,               \* the last response sent on the management socket
    answered,               \* the number of responses sent on the management socket
    running,                \* EcommerceBroker.running
    threads,                \* EcommerceBroker.threads: the position of each thread started
    wait,                   \* lifecycle: seconds left of the poll or sleep each thread is in
    sockets,                \* the broker's sockets: none, open or closed
    context,                \* EcommerceBroker.context: open or terminated
    caller,                 \* lifecycle: the thread that calls start() and stop()
    management_sockets,     \* EcommerceSubscriber.management_sockets: one REQ socket per broker
    active_subscriptions,   \* EcommerceSubscriber.active_subscriptions (the ids)
    client                  \* subscriber: the call in progress and its position

vars == <<simple_subscriptions, complex_subscriptions, window_managers,
          subscription_contexts, last, samples, emitted, removed,
          pc, it, req, seen, budget,
          subscriber_addresses, events_processed, notifications_sent,
          egress, response, answered,
          running, threads, wait, sockets, context, caller,
          management_sockets, active_subscriptions, client>>

matcherVars == <<simple_subscriptions, complex_subscriptions, window_managers,
                 subscription_contexts>>

historyVars == <<samples, emitted, removed>>

workerVars == <<pc, it, req, seen, budget>>

brokerVars == <<subscriber_addresses, events_processed, notifications_sent,
                egress, response, answered>>

lifecycleVars == <<running, threads, wait, sockets, context, caller>>

\* What the specifications of the matcher and of the two broker workers
\* leave alone.
subscriberVars == <<management_sockets, active_subscriptions, client>>

outsideVars == <<lifecycleVars, subscriberVars>>

None == [t |-> "none"]

Num(n) == [t |-> "num", n |-> n]

Str(s) == [t |-> "str", s |-> s]

(***************************************************************************)
(* Strings                                                                 *)
(***************************************************************************)

\* The characters in use, in code point order.
Alphabet ==
    <<"-", ".", "0", "1", "2", "3", "4", "5", "6", "7", "8", "9",
      "C", "E", "U", "_",
      "a", "c", "d", "e", "g", "h", "i", "k", "l", "m", "n", "o", "p", "q",
      "r", "s", "t", "u", "v", "w", "x", "y">>

Ord(c) == CHOOSE i \in 1..Len(Alphabet) : Alphabet[i] = c

Digits == {"0", "1", "2", "3", "4", "5", "6", "7", "8", "9"}

DigitVal(c) == Ord(c) - Ord("0")

\* Python's a < b on str: the first differing character decides, a proper prefix is smaller.
RECURSIVE StrLess(_, _)
StrLess(a, b) ==
    IF b = <<>> THEN FALSE
    ELSE IF a = <<>> THEN TRUE
    ELSE IF Head(a) = Head(b) THEN StrLess(Tail(a), Tail(b))
    ELSE Ord(Head(a)) < Ord(Head(b))

StartsWith(s, p) == Len(s) >= Len(p) /\ SubSeq(s, 1, Len(p)) = p

\* str.replace(old, ""): every non-overlapping occurrence, scanning left to right.
RECURSIVE Remove(_, _)
Remove(s, old) ==
    IF s = <<>> THEN <<>>
    ELSE IF StartsWith(s, old) THEN Remove(SubSeq(s, Len(old) + 1, Len(s)), old)
    ELSE <<Head(s)>> \o Remove(Tail(s), old)

RECURSIVE DigitsValue(_)
DigitsValue(s) ==
    IF s = <<>> THEN 0
    ELSE 10 * DigitsValue(SubSeq(s, 1, Len(s) - 1)) + DigitVal(s[Len(s)])

AllDigits(s) == \A i \in 1..Len(s) : s[i] \in Digits

DotAt(s) == IF \E i \in 1..Len(s) : s[i] = "."
            THEN CHOOSE i \in 1..Len(s) : s[i] = "." /\ \A j \in 1..(i - 1) : s[j] # "."
            ELSE 0

\* float(s) of an unsigned decimal literal with at most two fractional digits,
\* in hundredths; ok = FALSE is ValueError.
ParseUnsigned(s) ==
    LET d    == DotAt(s)
        ip   == IF d = 0 THEN s ELSE SubSeq(s, 1, d - 1)
        fp   == IF d = 0 THEN <<>> ELSE SubSeq(s, d + 1, Len(s))
        frac == IF Len(fp) = 0 THEN 0
                ELSE IF Len(fp) = 1 THEN 10 * DigitsValue(fp)
                ELSE DigitsValue(fp)
    IN  IF /\ AllDigits(ip) /\ AllDigits(fp)
           /\ Len(ip) + Len(fp) > 0
           /\ Len(fp) <= 2
        THEN [ok |-> TRUE, n |-> 100 * DigitsValue(ip) + frac]
        ELSE [ok |-> FALSE, n |-> 0]

\* float(s) for a str: an optional sign, then the unsigned literal.
ParseFloat(s) ==
    IF s # <<>> /\ Head(s) = "-"
    THEN LET r == ParseUnsigned(Tail(s)) IN [ok |-> r.ok, n |-> 0 - r.n]
    ELSE ParseUnsigned(s)

\* float(v): a number converts to itself, a str is parsed, None is TypeError.
Float(v) ==
    IF v.t = "num" THEN [ok |-> TRUE, n |-> v.n]
    ELSE IF v.t = "str" THEN ParseFloat(v.s)
    ELSE [ok |-> FALSE, n |-> 0]

(***************************************************************************)
(* Field names and events                                                  *)
(***************************************************************************)

user_id       == <<"u", "s", "e", "r", "_", "i", "d">>
product_id    == <<"p", "r", "o", "d", "u", "c", "t", "_", "i", "d">>
category      == <<"c", "a", "t", "e", "g", "o", "r", "y">>
price         == <<"p", "r", "i", "c", "e">>
quantity      == <<"q", "u", "a", "n", "t", "i", "t", "y">>
warehouse_id  == <<"w", "a", "r", "e", "h", "o", "u", "s", "e", "_", "i", "d">>
view_duration == <<"v", "i", "e", "w", "_", "d", "u", "r", "a", "t", "i", "o", "n">>
source        == <<"s", "o", "u", "r", "c", "e">>
stock_level   == <<"s", "t", "o", "c", "k", "_", "l", "e", "v", "e", "l">>
operation     == <<"o", "p", "e", "r", "a", "t", "i", "o", "n">>
rating        == <<"r", "a", "t", "i", "n", "g">>
review_text   == <<"r", "e", "v", "i", "e", "w", "_", "t", "e", "x", "t">>

avg_ == <<"a", "v", "g", "_">>
max_ == <<"m", "a", "x", "_">>
min_ == <<"m", "i", "n", "_">>

\* The field names _evaluate_condition compares as numbers.
NumericFields == {price, stock_level, rating, quantity, view_duration}

\* _extract_field_value: the if-chain per event type; None when the name is
\* not a field of the event's variant.
extract_field_value(event, field_name) ==
    IF event.event_type = "PURCHASE" THEN
        LET purchase == event.purchase IN
        IF field_name = user_id THEN Str(purchase.user_id)
        ELSE IF field_name = product_id THEN Str(purchase.product_id)
        ELSE IF field_name = category THEN Str(purchase.category)
        ELSE IF field_name = price THEN Num(purchase.price)
        ELSE IF field_name = quantity THEN Num(purchase.quantity)
        ELSE IF field_name = warehouse_id THEN Str(purchase.warehouse_id)
        ELSE None
    ELSE IF event.event_type = "PRODUCT_VIEW" THEN
        LET view == event.product_view IN
        IF field_name = user_id THEN Str(view.user_id)
        ELSE IF field_name = product_id THEN Str(view.product_id)
        ELSE IF field_name = category THEN Str(view.category)
        ELSE IF field_name = view_duration THEN Num(view.view_duration)
        ELSE IF field_name = source THEN Str(view.source)
        ELSE None
    ELSE IF event.event_type = "INVENTORY_UPDATE" THEN
        LET inventory == event.inventory_update IN
        IF field_name = product_id THEN Str(inventory.product_id)
        ELSE IF field_name = category THEN Str(inventory.category)
        ELSE IF field_name = stock_level THEN Num(inventory.stock_level)
        ELSE IF field_name = warehouse_id THEN Str(inventory.warehouse_id)
        ELSE IF field_name = operation THEN Str(inventory.operation)
        ELSE None
    ELSE IF event.event_type = "USER_RATING" THEN
        LET r == event.user_rating IN
        IF field_name = user_id THEN Str(r.user_id)
        ELSE IF field_name = product_id THEN Str(r.product_id)
        ELSE IF field_name = category THEN Str(r.category)
        ELSE IF field_name = rating THEN Num(r.rating)
        ELSE IF field_name = review_text THEN Str(r.review_text)
        ELSE None
    ELSE None

\* _extract_numeric_value: the three replace calls, then float(); None when
\* the base field is absent or float() raises.
\* Mutant: an _extract_numeric_value that reads an absent field as 0.0.
extract_numeric_value_absent_as_zero(event, field_name) ==
    LET base_field == Remove(Remove(Remove(field_name, avg_), max_), min_)
        value      == extract_field_value(event, base_field)
    IN  IF value = None THEN Num(0)
        ELSE IF Float(value).ok THEN Num(Float(value).n) ELSE None

extract_numeric_value(event, field_name) ==
    LET base_field == Remove(Remove(Remove(field_name, avg_), max_), min_)
        value      == extract_field_value(event, base_field)
    IN  IF value # None /\ Float(value).ok THEN Num(Float(value).n) ELSE None

\* Mutant: comparisons on floats in which GREATER_THAN and LESS_THAN admit
\* equality.
CompareNum_inclusive(operator, a, b) ==
    IF operator = "EQUAL" THEN a = b
    ELSE IF operator = "NOT_EQUAL" THEN a # b
    ELSE IF operator = "GREATER_THAN" THEN a >= b
    ELSE IF operator = "GREATER_EQUAL" THEN a >= b
    ELSE IF operator = "LESS_THAN" THEN a <= b
    ELSE IF operator = "LESS_EQUAL" THEN a <= b
    ELSE FALSE

\* The six comparisons of _evaluate_condition on two floats.
CompareNum(operator, a, b) ==
    IF operator = "EQUAL" THEN a = b
    ELSE IF operator = "NOT_EQUAL" THEN a # b
    ELSE IF operator = "GREATER_THAN" THEN a > b
    ELSE IF operator = "GREATER_EQUAL" THEN a >= b
    ELSE IF operator = "LESS_THAN" THEN a < b
    ELSE IF operator = "LESS_EQUAL" THEN a <= b
    ELSE FALSE

\* The six comparisons of _evaluate_condition on two strs.
CompareStr(operator, a, b) ==
    IF operator = "EQUAL" THEN a = b
    ELSE IF operator = "NOT_EQUAL" THEN a # b
    ELSE IF operator = "GREATER_THAN" THEN StrLess(b, a)
    ELSE IF operator = "GREATER_EQUAL" THEN ~StrLess(a, b)
    ELSE IF operator = "LESS_THAN" THEN StrLess(a, b)
    ELSE IF operator = "LESS_EQUAL" THEN ~StrLess(b, a)
    ELSE FALSE

\* Mutant: an _evaluate_condition that compares a field the event does not
\* have as the empty string.
evaluate_condition_absent_as_empty(event, condition) ==
    IF extract_field_value(event, condition.field_name) = None
    THEN CompareStr(condition.operator, <<>>, condition.value)
    ELSE IF condition.field_name \in NumericFields
    THEN IF Float(extract_field_value(event, condition.field_name)).ok
            /\ ParseFloat(condition.value).ok
         THEN CompareNum(condition.operator,
                         Float(extract_field_value(event, condition.field_name)).n,
                         ParseFloat(condition.value).n)
         ELSE FALSE
    ELSE CompareStr(condition.operator,
                    extract_field_value(event, condition.field_name).s, condition.value)

\* _evaluate_condition
evaluate_condition(event, condition) ==
    LET field_value == extract_field_value(event, condition.field_name) IN
    IF field_value = None THEN FALSE
    ELSE IF condition.field_name \in NumericFields THEN
        LET f == Float(field_value)
            c == ParseFloat(condition.value)
        IN  IF f.ok /\ c.ok THEN CompareNum(condition.operator, f.n, c.n) ELSE FALSE
    ELSE CompareStr(condition.operator, field_value.s, condition.value)

Abs(x) == IF x < 0 THEN 0 - x ELSE x

\* _evaluate_windowed_condition on the aggregate num/den (den > 0) against
\* float(condition.value); the tolerance 0.01 is one hundredth.
evaluate_windowed_condition(aggregated_value, condition) ==
    LET c   == ParseFloat(condition.value)
        num == aggregated_value.num
        den == aggregated_value.den
        op  == condition.operator
    IN  IF ~c.ok THEN FALSE
        ELSE IF op = "GREATER_THAN" THEN num > c.n * den
        ELSE IF op = "GREATER_EQUAL" THEN num >= c.n * den
        ELSE IF op = "LESS_THAN" THEN num < c.n * den
        ELSE IF op = "LESS_EQUAL" THEN num <= c.n * den
        ELSE IF op = "EQUAL" THEN Abs(num - c.n * den) < den
        ELSE IF op = "NOT_EQUAL" THEN Abs(num - c.n * den) >= den
        ELSE FALSE

(***************************************************************************)
(* Dicts (insertion ordered)                                               *)
(***************************************************************************)

Keys(d) == {d[i].k : i \in 1..Len(d)}

Has(d, k) == k \in Keys(d)

Get(d, k) == d[CHOOSE i \in 1..Len(d) : d[i].k = k].v

\* d[k] = v: an existing key keeps its position, a new key goes last.
Put(d, k, v) ==
    IF Has(d, k)
    THEN [i \in 1..Len(d) |-> IF d[i].k = k THEN [k |-> k, v |-> v] ELSE d[i]]
    ELSE Append(d, [k |-> k, v |-> v])

\* del d[k]
RECURSIVE Del(_, _)
Del(d, k) ==
    IF d = <<>> THEN <<>>
    ELSE IF Head(d).k = k THEN Tail(d)
    ELSE <<Head(d)>> \o Del(Tail(d), k)

(***************************************************************************)
(* WindowManager                                                           *)
(***************************************************************************)

\* WindowManager.__init__; deque(maxlen=window_size) raises ValueError for a
\* negative maxlen, which is what the caller sees (err).
WindowManager(window_size, aggregation_type) ==
    [err |-> window_size < 0,
     wm  |-> [window_size |-> window_size, aggregation_type |-> aggregation_type,
              window |-> <<>>, is_full |-> FALSE]]

\* deque.append on a deque of maxlen n: a full deque drops its oldest item.
DequeAppend(window, maxlen, value) ==
    IF maxlen = 0 THEN window
    ELSE IF Len(window) = maxlen THEN Append(Tail(window), value)
    ELSE Append(window, value)

RECURSIVE SumSeq(_)
SumSeq(s) == IF s = <<>> THEN 0 ELSE Head(s) + SumSeq(Tail(s))

MaxSeq(s) == CHOOSE x \in {s[i] : i \in 1..Len(s)} : \A i \in 1..Len(s) : s[i] <= x

MinSeq(s) == CHOOSE x \in {s[i] : i \in 1..Len(s)} : \A i \in 1..Len(s) : x <= s[i]

\* statistics.mean: the exact mean; StatisticsError on no data.
Mean(values) ==
    IF values = <<>> THEN [err |-> TRUE, num |-> 0, den |-> 1]
    ELSE [err |-> FALSE, num |-> SumSeq(values), den |-> Len(values)]

\* Mutant: _calculate_aggregation whose default branch is the sum.
calculate_aggregation_default_sum(w) ==
    LET values == w.window IN
    IF w.aggregation_type = "avg" THEN Mean(values)
    ELSE IF w.aggregation_type = "max" THEN
        IF values = <<>> THEN [err |-> TRUE, num |-> 0, den |-> 1]
        ELSE [err |-> FALSE, num |-> MaxSeq(values), den |-> 1]
    ELSE IF w.aggregation_type = "min" THEN
        IF values = <<>> THEN [err |-> TRUE, num |-> 0, den |-> 1]
        ELSE [err |-> FALSE, num |-> MinSeq(values), den |-> 1]
    ELSE [err |-> FALSE, num |-> SumSeq(values), den |-> 1]

\* WindowManager._calculate_aggregation; max() and min() raise ValueError on
\* an empty list, sum() of an empty list is 0.
calculate_aggregation(w) ==
    LET values == w.window IN
    IF w.aggregation_type = "avg" THEN Mean(values)
    ELSE IF w.aggregation_type = "max" THEN
        IF values = <<>> THEN [err |-> TRUE, num |-> 0, den |-> 1]
        ELSE [err |-> FALSE, num |-> MaxSeq(values), den |-> 1]
    ELSE IF w.aggregation_type = "min" THEN
        IF values = <<>> THEN [err |-> TRUE, num |-> 0, den |-> 1]
        ELSE [err |-> FALSE, num |-> MinSeq(values), den |-> 1]
    ELSE IF w.aggregation_type = "sum" THEN
        [err |-> FALSE, num |-> SumSeq(values), den |-> 1]
    ELSE Mean(values)

\* Mutant: add_value that does not clear the window when it fires (the
\* deque then slides).
add_value_sliding(w, value) ==
    LET appended == [w EXCEPT !.window = DequeAppend(w.window, w.window_size, value)] IN
    IF Len(appended.window) = w.window_size THEN
        LET full       == [appended EXCEPT !.is_full = TRUE]
            aggregated == calculate_aggregation(full)
        IN  IF aggregated.err
            THEN [w |-> full, window_full |-> FALSE, aggregated_value |-> None, err |-> TRUE]
            ELSE [w |-> full, window_full |-> TRUE,
                  aggregated_value |-> [num |-> aggregated.num, den |-> aggregated.den],
                  err |-> FALSE]
    ELSE [w |-> appended, window_full |-> FALSE, aggregated_value |-> None, err |-> FALSE]

\* Mutant: add_value that keeps the newest sample when it clears the window.
add_value_keeping_last(w, value) ==
    LET appended == [w EXCEPT !.window = DequeAppend(w.window, w.window_size, value)] IN
    IF Len(appended.window) = w.window_size THEN
        LET full       == [appended EXCEPT !.is_full = TRUE]
            aggregated == calculate_aggregation(full)
        IN  IF aggregated.err
            THEN [w |-> full, window_full |-> FALSE, aggregated_value |-> None, err |-> TRUE]
            ELSE [w |-> [full EXCEPT !.window = <<value>>], window_full |-> TRUE,
                  aggregated_value |-> [num |-> aggregated.num, den |-> aggregated.den],
                  err |-> FALSE]
    ELSE [w |-> appended, window_full |-> FALSE, aggregated_value |-> None, err |-> FALSE]

\* WindowManager.add_value: the manager afterwards, whether the window was
\* full, the aggregate, and err when _calculate_aggregation raised (the
\* manager has then appended and set is_full, and has not cleared).
add_value(w, value) ==
    LET appended == [w EXCEPT !.window = DequeAppend(w.window, w.window_size, value)] IN
    IF Len(appended.window) = w.window_size THEN
        LET full       == [appended EXCEPT !.is_full = TRUE]
            aggregated == calculate_aggregation(full)
        IN  IF aggregated.err
            THEN [w |-> full, window_full |-> FALSE, aggregated_value |-> None, err |-> TRUE]
            ELSE [w |-> [full EXCEPT !.window = <<>>], window_full |-> TRUE,
                  aggregated_value |-> [num |-> aggregated.num, den |-> aggregated.den],
                  err |-> FALSE]
    ELSE [w |-> appended, window_full |-> FALSE, aggregated_value |-> None, err |-> FALSE]

(***************************************************************************)
(* SubscriptionMatcher                                                     *)
(***************************************************************************)

unknown == <<"u", "n", "k", "n", "o", "w", "n">>

\* _create_simple_notification (the id and timestamp fields, which are read
\* from the clock, are not modelled)
create_simple_notification(event, subscription) ==
    [kind            |-> "simple",
     subscription_id |-> subscription.subscription_id,
     subscriber_id   |-> subscription.subscriber_id,
     matched_event   |-> event]

\* The category loop of _create_complex_notification: the value of the first
\* condition on category with EQUAL, else "unknown".
notification_category(conditions) ==
    LET hits == {i \in 1..Len(conditions) :
                    conditions[i].field_name = category /\ conditions[i].operator = "EQUAL"}
    IN  IF hits = {} THEN unknown
        ELSE conditions[CHOOSE i \in hits : \A j \in hits : i <= j].value

\* _create_complex_notification
create_complex_notification(subscription, condition, aggregated_value) ==
    [kind             |-> "complex",
     subscription_id  |-> subscription.subscription_id,
     subscriber_id    |-> subscription.subscriber_id,
     category         |-> notification_category(subscription.conditions),
     field_name       |-> condition.field_name,
     aggregated_value |-> aggregated_value,
     window_size      |-> subscription.window_config.window_size,
     condition_met    |-> TRUE]

\* The loop of _match_simple_subscription from condition i on: the first
\* false condition returns False.
RECURSIVE match_simple_from(_, _, _)
match_simple_from(event, conditions, i) ==
    IF i > Len(conditions) THEN TRUE
    ELSE IF ~evaluate_condition(event, conditions[i]) THEN FALSE
    ELSE match_simple_from(event, conditions, i + 1)

\* _match_simple_subscription
match_simple_subscription(event, subscription) ==
    match_simple_from(event, subscription.conditions, 1)

\* The first loop of _match_complex_subscription from condition i on:
\* non_windowed_match.
RECURSIVE non_windowed_from(_, _, _)
non_windowed_from(event, conditions, i) ==
    IF i > Len(conditions) THEN TRUE
    ELSE IF ~conditions[i].is_windowed /\ ~evaluate_condition(event, conditions[i]) THEN FALSE
    ELSE non_windowed_from(event, conditions, i + 1)

non_windowed_match(event, subscription) ==
    non_windowed_from(event, subscription.conditions, 1)

\* The second loop of _match_complex_subscription from condition i on.
\* acc.window_managers is the manager map so far, acc.notifications the list
\* so far, acc.adds the add_value calls made (what was added where, and what
\* came back), acc.err an exception that ends the loop: KeyError when the
\* manager of the id or of the field is missing, or what add_value raised.
RECURSIVE process_windowed(_, _, _, _)
process_windowed(event, subscription, i, acc) ==
    LET conditions      == subscription.conditions
        subscription_id == subscription.subscription_id
    IN
    IF acc.err \/ i > Len(conditions) THEN acc
    ELSE IF ~conditions[i].is_windowed THEN process_windowed(event, subscription, i + 1, acc)
    ELSE
        LET condition == conditions[i]
            value     == extract_numeric_value(event, condition.field_name)
        IN
        IF value = None THEN process_windowed(event, subscription, i + 1, acc)
        ELSE IF ~Has(acc.window_managers, subscription_id)
                \/ ~Has(Get(acc.window_managers, subscription_id), condition.field_name)
        THEN [acc EXCEPT !.err = TRUE]
        ELSE
            LET of_sub == Get(acc.window_managers, subscription_id)
                r      == add_value(Get(of_sub, condition.field_name), value.n)
                wms    == Put(acc.window_managers, subscription_id,
                              Put(of_sub, condition.field_name, r.w))
                call   == [subscription_id |-> subscription_id, index |-> i,
                           field_name |-> condition.field_name, value |-> value.n,
                           window_full |-> r.window_full,
                           aggregated_value |-> r.aggregated_value]
                met    == /\ r.window_full
                          /\ r.aggregated_value # None
                          /\ evaluate_windowed_condition(r.aggregated_value, condition)
                next   == [window_managers |-> wms,
                           notifications   |->
                               IF ~r.err /\ met
                               THEN Append(acc.notifications,
                                           create_complex_notification(subscription, condition,
                                                                       r.aggregated_value))
                               ELSE acc.notifications,
                           adds            |-> IF r.err THEN acc.adds ELSE Append(acc.adds, call),
                           err             |-> r.err]
            IN  process_windowed(event, subscription, i + 1, next)

\* Mutant: _match_complex_subscription without the early return on
\* non_windowed_match.
match_complex_subscription_ungated(event, subscription, acc) ==
    process_windowed(event, subscription, 1, acc)

\* _match_complex_subscription, continuing from acc.
match_complex_subscription(event, subscription, acc) ==
    IF ~non_windowed_match(event, subscription) THEN acc
    ELSE process_windowed(event, subscription, 1, acc)

\* The first loop of match_event from entry i on.
RECURSIVE match_simple_loop(_, _, _)
match_simple_loop(event, simple, i) ==
    IF i > Len(simple) THEN <<>>
    ELSE (IF match_simple_subscription(event, simple[i].v)
          THEN <<create_simple_notification(event, simple[i].v)>>
          ELSE <<>>) \o match_simple_loop(event, simple, i + 1)

\* The second loop of match_event from entry i on.
RECURSIVE match_complex_loop(_, _, _, _)
match_complex_loop(event, complex, i, acc) ==
    IF acc.err \/ i > Len(complex) THEN acc
    ELSE match_complex_loop(event, complex, i + 1,
                            match_complex_subscription(event, complex[i].v, acc))

\* Mutant: a match_event that runs its second loop first and puts the
\* simple notifications after the complex ones.
complex_first_outcome(done, simple_notifications) ==
    [window_managers |-> done.window_managers,
     notifications   |-> IF done.err THEN <<>> ELSE done.notifications \o simple_notifications,
     adds            |-> done.adds,
     raised          |-> done.err]

match_event_complex_first(simple, complex, wms, event) ==
    complex_first_outcome(
        match_complex_loop(event, complex, 1,
                           [window_managers |-> wms, notifications |-> <<>>,
                            adds |-> <<>>, err |-> FALSE]),
        match_simple_loop(event, simple, 1))

\* match_event on the maps simple, complex and wms: the manager map
\* afterwards, the list returned, and raised when an exception left the call
\* (nothing is returned then; the managers keep what was done before it).
match_event_outcome(done) ==
    [window_managers |-> done.window_managers,
     notifications   |-> IF done.err THEN <<>> ELSE done.notifications,
     adds            |-> done.adds,
     raised          |-> done.err]

match_event(simple, complex, wms, event) ==
    match_event_outcome(
        match_complex_loop(event, complex, 1,
                           [window_managers |-> wms,
                            notifications   |-> match_simple_loop(event, simple, 1),
                            adds            |-> <<>>,
                            err             |-> FALSE]))

\* The loop of _setup_window_managers from condition i on: of_sub is
\* window_managers[subscription_id] so far; err when WindowManager() raised.
RECURSIVE setup_from(_, _, _)
setup_from(subscription, i, acc) ==
    LET conditions == subscription.conditions IN
    IF acc.err \/ i > Len(conditions) THEN acc
    ELSE IF ~conditions[i].is_windowed THEN setup_from(subscription, i + 1, acc)
    ELSE
        LET made == WindowManager(subscription.window_config.window_size,
                                  subscription.window_config.aggregation_type)
        IN  IF made.err THEN [acc EXCEPT !.err = TRUE]
            ELSE setup_from(subscription, i + 1,
                            [acc EXCEPT !.of_sub = Put(acc.of_sub, conditions[i].field_name, made.wm)])

\* Mutant: a _setup_window_managers that keeps the managers the id already
\* has.
setup_window_managers_keeping(wms, ctxs, subscription) ==
    LET r   == setup_from(subscription, 1, [of_sub |-> <<>>, err |-> FALSE])
        old == IF Has(wms, subscription.subscription_id)
               THEN Get(wms, subscription.subscription_id) ELSE <<>>
        of_sub == [i \in 1..Len(r.of_sub) |->
                      IF Has(old, r.of_sub[i].k)
                      THEN [k |-> r.of_sub[i].k, v |-> Get(old, r.of_sub[i].k)]
                      ELSE r.of_sub[i]]
    IN  [window_managers       |-> Put(wms, subscription.subscription_id, of_sub),
         subscription_contexts |-> Put(ctxs, subscription.subscription_id, <<>>),
         raised                |-> r.err]

\* _setup_window_managers: the two maps are reset for the id first.
setup_window_managers(wms, ctxs, subscription) ==
    LET r == setup_from(subscription, 1, [of_sub |-> <<>>, err |-> FALSE]) IN
    [window_managers       |-> Put(wms, subscription.subscription_id, r.of_sub),
     subscription_contexts |-> Put(ctxs, subscription.subscription_id, <<>>),
     raised                |-> r.err]

\* add_subscription: the four maps afterwards, and raised when
\* _setup_window_managers raised.
add_subscription(simple, complex, wms, ctxs, subscription) ==
    IF subscription.type = "SIMPLE"
    THEN [simple_subscriptions  |-> Put(simple, subscription.subscription_id, subscription),
          complex_subscriptions |-> complex,
          window_managers       |-> wms,
          subscription_contexts |-> ctxs,
          raised                |-> FALSE]
    ELSE LET s == setup_window_managers(wms, ctxs, subscription) IN
         [simple_subscriptions  |-> simple,
          complex_subscriptions |-> Put(complex, subscription.subscription_id, subscription),
          window_managers       |-> s.window_managers,
          subscription_contexts |-> s.subscription_contexts,
          raised                |-> s.raised]

\* Mutant: a remove_subscription that leaves the window managers of the id.
remove_subscription_keeping_managers(simple, complex, wms, ctxs, subscription_id) ==
    IF Has(simple, subscription_id)
    THEN [simple_subscriptions  |-> Del(simple, subscription_id),
          complex_subscriptions |-> complex,
          window_managers       |-> wms,
          subscription_contexts |-> ctxs]
    ELSE [simple_subscriptions  |-> simple,
          complex_subscriptions |-> Del(complex, subscription_id),
          window_managers       |-> wms,
          subscription_contexts |-> Del(ctxs, subscription_id)]

\* Mutant: a remove_subscription that drops every window manager when it
\* does not find the id.
remove_subscription_dropping_windows(simple, complex, wms, ctxs, subscription_id) ==
    IF Has(simple, subscription_id)
    THEN [simple_subscriptions  |-> Del(simple, subscription_id),
          complex_subscriptions |-> complex,
          window_managers       |-> wms,
          subscription_contexts |-> ctxs]
    ELSE IF Has(complex, subscription_id)
    THEN [simple_subscriptions  |-> simple,
          complex_subscriptions |-> Del(complex, subscription_id),
          window_managers       |-> Del(wms, subscription_id),
          subscription_contexts |-> Del(ctxs, subscription_id)]
    ELSE [simple_subscriptions  |-> simple,
          complex_subscriptions |-> complex,
          window_managers       |-> <<>>,
          subscription_contexts |-> ctxs]

\* remove_subscription: the if / elif on the two maps.
remove_subscription(simple, complex, wms, ctxs, subscription_id) ==
    IF Has(simple, subscription_id)
    THEN [simple_subscriptions  |-> Del(simple, subscription_id),
          complex_subscriptions |-> complex,
          window_managers       |-> wms,
          subscription_contexts |-> ctxs]
    ELSE IF Has(complex, subscription_id)
    THEN [simple_subscriptions  |-> simple,
          complex_subscriptions |-> Del(complex, subscription_id),
          window_managers       |-> Del(wms, subscription_id),
          subscription_contexts |-> Del(ctxs, subscription_id)]
    ELSE [simple_subscriptions  |-> simple,
          complex_subscriptions |-> complex,
          window_managers       |-> wms,
          subscription_contexts |-> ctxs]

(***************************************************************************)
(* Inputs                                                                  *)
(***************************************************************************)

Electronics == <<"E", "l", "e", "c", "t", "r", "o", "n", "i", "c", "s">>
Clothing    == <<"C", "l", "o", "t", "h", "i", "n", "g">>
U1          == <<"U", "1">>
P1          == <<"p", "1">>
W1          == <<"w", "1">>

avg_rating == avg_ \o rating
max_price  == max_ \o price
min_rating == min_ \o rating

UserRating(id, cat, r) ==
    [event_type |-> "USER_RATING", event_id |-> id,
     user_rating |-> [user_id |-> U1, product_id |-> P1, category |-> cat,
                      rating |-> r, review_text |-> <<>>]]

Purchase(id, cat, p) ==
    [event_type |-> "PURCHASE", event_id |-> id,
     purchase |-> [user_id |-> U1, product_id |-> P1, category |-> cat,
                   price |-> p, quantity |-> 100, warehouse_id |-> W1]]

InventoryUpdate(id, cat, level) ==
    [event_type |-> "INVENTORY_UPDATE", event_id |-> id,
     inventory_update |-> [product_id |-> P1, category |-> cat, stock_level |-> level,
                           warehouse_id |-> W1, operation |-> <<"a", "d", "d">>]]

\* The events fed to the matcher: ratings 4.0 and 1.0 in Electronics, 5.0 in
\* Clothing, and purchases at 500.01 and 500.0 (a rating has no price, a
\* purchase no rating).
Events ==
    {UserRating("e1", Electronics, 400),
     UserRating("e2", Electronics, 100),
     UserRating("e3", Clothing, 500),
     Purchase("e4", Electronics, 50001),
     Purchase("e5", Electronics, 50000)}

Cond(f, op, v, w) == [field_name |-> f, operator |-> op, value |-> v, is_windowed |-> w]

Sub(id, type, conds, n, agg) ==
    [subscription_id |-> id, subscriber_id |-> "subscriber-" \o id, type |-> type,
     conditions |-> conds,
     window_config |-> [window_size |-> n, aggregation_type |-> agg]]

\* A protobuf Subscription without window_config reads window_size 0 and
\* aggregation_type "".
Simple(id, conds) == Sub(id, "SIMPLE", conds, 0, "")

Ids == {"s1", "s2"}

v3_0   == <<"3", ".", "0">>
v500_0 == <<"5", "0", "0", ".", "0">>
v1     == <<"1">>
v100   == <<"1", "0", "0">>

CategoryIsElectronics == Cond(category, "EQUAL", Electronics, FALSE)

SimpleCategory(id) == Simple(id, <<CategoryIsElectronics>>)

SimpleAnd(id) ==
    Simple(id, <<CategoryIsElectronics, Cond(price, "GREATER_THAN", v500_0, FALSE)>>)

ComplexAvg(id) ==
    Sub(id, "COMPLEX", <<CategoryIsElectronics, Cond(avg_rating, "GREATER_THAN", v3_0, TRUE)>>,
        2, "avg")

\* The subscriptions clients register: well-formed ones under either id, and
\* under "s1" also the ones the data model rules out (no conditions, an
\* unrecognized aggregation type, no windowed condition, a window size of 0
\* and of -1).
Subscriptions ==
    {SimpleCategory("s1"), SimpleAnd("s1"), ComplexAvg("s1"),
     SimpleCategory("s2"), ComplexAvg("s2"),
     Simple("s1", <<>>),
     Sub("s1", "COMPLEX", <<Cond(max_price, "GREATER_THAN", v100, TRUE)>>, 1, "median"),
     Sub("s1", "COMPLEX", <<CategoryIsElectronics>>, 2, "avg"),
     Sub("s1", "COMPLEX", <<Cond(avg_rating, "GREATER_EQUAL", v1, TRUE)>>, 0, "avg"),
     Sub("s1", "COMPLEX", <<Cond(avg_rating, "GREATER_EQUAL", v1, TRUE)>>, -1, "avg")}

(***************************************************************************)
(* The matcher, one call at a time                                         *)
(***************************************************************************)

NoCall == [op |-> "none", subscription |-> None, subscription_id |-> "", event |-> None,
           notifications |-> <<>>, adds |-> <<>>, raised |-> FALSE]

MatcherInit ==
    /\ simple_subscriptions = <<>>
    /\ complex_subscriptions = <<>>
    /\ window_managers = <<>>
    /\ subscription_contexts = <<>>
    /\ last = NoCall

NoWorkers ==
    /\ pc = [w \in {} |-> ""]
    /\ it = None
    /\ req = None
    /\ seen = {}
    /\ budget = [w \in {} |-> 0]

\* self.threads, in the order start() lists them.
Threads == <<"publisher", "subscriber", "peer", "heartbeat">>

\* poll(1000) of _publisher_listener and _subscriber_handler, in seconds
PollTimeout == 1

\* time.sleep(1) of _peer_communication_handler
PeerSleep == 1

\* time.sleep(5) of _heartbeat_sender
HeartbeatSleep == 5

\* thread.join(timeout=1.0) of stop()
JoinTimeout == 1

\* How long the blocking call of a thread's loop lasts at most.
Period(thread) ==
    IF thread = "heartbeat" THEN HeartbeatSleep
    ELSE IF thread = "peer" THEN PeerSleep
    ELSE PollTimeout

NoSockets ==
    [publisher_socket |-> "none", subscriber_socket |-> "none",
     peer_sockets |-> "none", sub_mgmt_socket |-> "none"]

Idle == [pc |-> "idle", i |-> 0, timeout |-> 0, calls |-> 0, returned |-> 0, raised |-> FALSE]

\* EcommerceBroker.__init__: a context, no socket, running False, no thread.
NotStarted ==
    /\ running = FALSE
    /\ threads = [t \in {} |-> ""]
    /\ wait = [t \in {} |-> 0]
    /\ sockets = NoSockets
    /\ context = "open"
    /\ caller = Idle

\* The broker once start() has returned and its threads are in their loops.
Serving ==
    /\ running = TRUE
    /\ threads = [t \in {Threads[i] : i \in 1..Len(Threads)} |-> "waiting"]
    /\ wait = [t \in {Threads[i] : i \in 1..Len(Threads)} |-> Period(t)]
    /\ sockets = [publisher_socket |-> "open", subscriber_socket |-> "open",
                  peer_sockets |-> "open", sub_mgmt_socket |-> "open"]
    /\ context = "open"
    /\ caller = Idle

\* EcommerceSubscriber.__init__: no socket, no subscription, no call.
NoSubscriber ==
    /\ management_sockets = <<>>
    /\ active_subscriptions = {}
    /\ client = None

\* EcommerceBroker.__init__: no address, both counters 0; nothing sent yet on
\* either socket.
BrokerInit ==
    /\ subscriber_addresses = <<>>
    /\ events_processed = 0
    /\ notifications_sent = 0
    /\ egress = <<>>
    /\ response = None
    /\ answered = 0

Init ==
    /\ MatcherInit
    /\ samples = <<>>
    /\ emitted = <<>>
    /\ removed = {}
    /\ NoWorkers
    /\ BrokerInit
    /\ NotStarted
    /\ NoSubscriber

\* matcher.add_subscription(subscription)
AddSubscription(subscription) ==
    LET r == add_subscription(simple_subscriptions, complex_subscriptions,
                              window_managers, subscription_contexts, subscription)
    IN  /\ simple_subscriptions' = r.simple_subscriptions
        /\ complex_subscriptions' = r.complex_subscriptions
        /\ window_managers' = r.window_managers
        /\ subscription_contexts' = r.subscription_contexts
        /\ last' = [NoCall EXCEPT !.op = "add", !.subscription = subscription,
                                  !.subscription_id = subscription.subscription_id,
                                  !.raised = r.raised]

\* matcher.remove_subscription(subscription_id)
RemoveSubscription(subscription_id) ==
    LET r == remove_subscription(simple_subscriptions, complex_subscriptions,
                                 window_managers, subscription_contexts, subscription_id)
    IN  /\ simple_subscriptions' = r.simple_subscriptions
        /\ complex_subscriptions' = r.complex_subscriptions
        /\ window_managers' = r.window_managers
        /\ subscription_contexts' = r.subscription_contexts
        /\ last' = [NoCall EXCEPT !.op = "remove", !.subscription_id = subscription_id]

\* matcher.match_event(event) with outcome r
MatchEventOutcome(event, r) ==
    /\ window_managers' = r.window_managers
    /\ UNCHANGED <<simple_subscriptions, complex_subscriptions, subscription_contexts>>
    /\ last' = [NoCall EXCEPT !.op = "match", !.event = event,
                              !.notifications = r.notifications,
                              !.adds = r.adds, !.raised = r.raised]

\* matcher.match_event(event)
MatchEvent(event) ==
    MatchEventOutcome(event, match_event(simple_subscriptions, complex_subscriptions,
                                         window_managers, event))

\* History: an id is in removed from its remove_subscription until it is
\* added again.
RecordRemoved ==
    removed' = IF last'.op = "add" THEN removed \ {last'.subscription_id}
               ELSE IF last'.op = "remove" THEN removed \cup {last'.subscription_id}
               ELSE removed

\* The rest of a step of Spec: the history of removed ids; the windows'
\* history and the workers stand still.
Recorded ==
    /\ RecordRemoved
    /\ UNCHANGED <<samples, emitted>>
    /\ UNCHANGED workerVars
    /\ UNCHANGED brokerVars
    /\ UNCHANGED outsideVars

\* The ids clients ask to remove: those they subscribe under, and one nobody
\* subscribes under.
RemovedIds == Ids \cup {"s3"}

Next ==
    \/ \E subscription \in Subscriptions : AddSubscription(subscription) /\ Recorded
    \/ \E subscription_id \in RemovedIds : RemoveSubscription(subscription_id) /\ Recorded
    \/ \E event \in Events : MatchEvent(event) /\ Recorded

Spec == Init /\ [][Next]_vars

(***************************************************************************)
(* The matcher with the history of its windows (SpecWindow)                *)
(***************************************************************************)

\* How many events may reach one window of one subscription.
MaxSamples == 4

v4_5 == <<"4", ".", "5">>

WindowedFields == {avg_rating, max_price, min_rating}

\* Complex subscriptions with one windowed condition (sizes 2 and 1), with
\* two windowed conditions on one field name, and with two on different
\* base fields.
WindowSubscriptions ==
    {ComplexAvg("s1"), ComplexAvg("s2"),
     Sub("s1", "COMPLEX", <<Cond(max_price, "GREATER_THAN", v100, TRUE)>>, 1, "max"),
     Sub("s1", "COMPLEX", <<Cond(min_rating, "LESS_THAN", v4_5, TRUE)>>, 2, "sum"),
     Sub("s1", "COMPLEX", <<Cond(avg_rating, "GREATER_THAN", v3_0, TRUE),
                            Cond(avg_rating, "LESS_THAN", v4_5, TRUE)>>, 2, "avg"),
     Sub("s1", "COMPLEX", <<CategoryIsElectronics,
                            Cond(max_price, "GREATER_THAN", v100, TRUE),
                            Cond(min_rating, "LESS_THAN", v3_0, TRUE)>>, 2, "min")}

\* The events fed to the windows: ratings 4.0 and 1.0 in Electronics and 5.0
\* in Clothing, and a purchase.
WindowEvents ==
    {UserRating("e1", Electronics, 400),
     UserRating("e2", Electronics, 100),
     UserRating("e3", Clothing, 500),
     Purchase("e4", Electronics, 50001)}

NoHistory == [id \in Ids |-> [f \in WindowedFields |->
                 [values |-> <<>>, events |-> 0, discarded |-> 0]]]

NoneEmitted == [id \in Ids |-> [f \in WindowedFields |-> 0]]

InitWindow ==
    /\ MatcherInit
    /\ samples = NoHistory
    /\ emitted = NoneEmitted
    /\ removed = {}
    /\ NoWorkers
    /\ BrokerInit
    /\ NotStarted
    /\ NoSubscriber

\* The values the add_value calls of the list gave to the window of (id, f).
RECURSIVE ValuesAdded(_, _, _)
ValuesAdded(adds, id, f) ==
    IF adds = <<>> THEN <<>>
    ELSE (IF Head(adds).subscription_id = id /\ Head(adds).field_name = f
          THEN <<Head(adds).value>> ELSE <<>>) \o ValuesAdded(Tail(adds), id, f)

\* The event passes the gate of the complex subscription registered under
\* id and carries a value for the base field of its windowed field f.
IsGatedSample(complex, id, f, event) ==
    /\ Has(complex, id)
    /\ LET S == Get(complex, id) IN
       /\ \E c \in {S.conditions[i] : i \in 1..Len(S.conditions)} : c.is_windowed /\ c.field_name = f
       /\ \A c \in {S.conditions[i] : i \in 1..Len(S.conditions)} :
             ~c.is_windowed => evaluate_condition(event, c)
       /\ extract_numeric_value(event, f) # None

\* History: per complex id and windowed field, the values add_value was
\* given and the number of gated events that carried a value, since the id
\* was last added as a complex subscription, and the number of samples the
\* window held when that add replaced it; and the number of complex
\* notifications returned since. A complex id that is gone has no history.
WindowHistoryRecorded(discarding) ==
    LET reset(id) == \/ /\ last'.op = "add"
                        /\ last'.subscription_id = id
                        /\ last'.subscription.type # "SIMPLE"
                     \/ ~Has(complex_subscriptions', id)
        held(id, f) == IF /\ discarding
                          /\ Has(complex_subscriptions', id)
                          /\ Has(window_managers, id)
                          /\ Has(Get(window_managers, id), f)
                       THEN Len(Get(Get(window_managers, id), f).window)
                       ELSE 0
    IN
    /\ samples' = [id \in Ids |-> [f \in WindowedFields |->
          IF reset(id) THEN [values |-> <<>>, events |-> 0, discarded |-> held(id, f)]
          ELSE IF last'.op = "match"
          THEN [values |-> samples[id][f].values \o ValuesAdded(last'.adds, id, f),
                events |-> samples[id][f].events
                             + (IF IsGatedSample(complex_subscriptions, id, f, last'.event)
                                THEN 1 ELSE 0),
                discarded |-> samples[id][f].discarded]
          ELSE samples[id][f]]]
    /\ emitted' = [id \in Ids |-> [f \in WindowedFields |->
          IF reset(id) THEN 0
          ELSE IF last'.op = "match"
          THEN emitted[id][f]
                 + Cardinality({i \in 1..Len(last'.notifications) :
                                   /\ last'.notifications[i].kind = "complex"
                                   /\ last'.notifications[i].subscription_id = id
                                   /\ last'.notifications[i].field_name = f})
          ELSE emitted[id][f]]]

\* SpecWindow does not record the samples an add discards.
RecordWindowHistory == WindowHistoryRecorded(FALSE)

\* An event is fed only while every window has seen fewer than MaxSamples.
WithinSamples ==
    \A id \in Ids : \A f \in WindowedFields : samples[id][f].events < MaxSamples

\* The rest of a step of SpecWindow: the history of the windows; removed and
\* the workers stand still.
RecordedWindow ==
    /\ RecordWindowHistory
    /\ UNCHANGED removed
    /\ UNCHANGED workerVars
    /\ UNCHANGED brokerVars
    /\ UNCHANGED outsideVars

NextWindow ==
    \/ \E subscription \in WindowSubscriptions : AddSubscription(subscription) /\ RecordedWindow
    \/ \E subscription_id \in Ids : RemoveSubscription(subscription_id) /\ RecordedWindow
    \/ \E event \in WindowEvents : WithinSamples /\ MatchEvent(event) /\ RecordedWindow

SpecWindow == InitWindow /\ [][NextWindow]_vars

(***************************************************************************)
(* Properties of the matcher, one call at a time (Spec)                    *)
(***************************************************************************)

Range(seq) == {seq[i] : i \in 1..Len(seq)}

Registered(d) == {d[i].v : i \in 1..Len(d)}

\* The number of notifications of the kind in the list that carry the id.
CountFor(notifications, kind, subscription_id) ==
    Cardinality({i \in 1..Len(notifications) :
                    /\ notifications[i].kind = kind
                    /\ notifications[i].subscription_id = subscription_id})

AllConditionsHold(event, S) ==
    \A c \in Range(S.conditions) : evaluate_condition(event, c)

NonWindowedHold(event, S) ==
    \A c \in Range(S.conditions) : ~c.is_windowed => evaluate_condition(event, c)

\* C1: for every event E and every registered simple subscription S,
\* match_event(E) returns exactly one SimpleNotification carrying S's
\* subscription_id if every condition of S is true on E, and none otherwise.
C1_SimpleMatchExactlyOnce ==
    last.op = "match" =>
        \A S \in Registered(simple_subscriptions) :
            CountFor(last.notifications, "simple", S.subscription_id)
                = IF AllConditionsHold(last.event, S) THEN 1 ELSE 0

\* C1 restricted to the calls that return: the same count, whenever
\* match_event did not leave by an exception.
C1_WhenReturned ==
    (last.op = "match" /\ ~last.raised) =>
        \A S \in Registered(simple_subscriptions) :
            CountFor(last.notifications, "simple", S.subscription_id)
                = IF AllConditionsHold(last.event, S) THEN 1 ELSE 0

C2_ByKind ==
    last.op = "match" =>
        \A n \in Range(last.notifications) :
            \A S \in Registered(IF n.kind = "simple" THEN simple_subscriptions
                                ELSE complex_subscriptions) :
                S.subscription_id = n.subscription_id => NonWindowedHold(last.event, S)

\* C3: sampling gate: when a non-windowed condition of a registered complex
\* subscription S is false on E, match_event(E) leaves the window managers of
\* S as they were and returns no complex notification for S.
C3_SamplingGate ==
    [][last'.op = "match" =>
          \A S \in Registered(complex_subscriptions) :
              ~NonWindowedHold(last'.event, S) =>
                  /\ Has(window_managers, S.subscription_id)
                        => /\ Has(window_managers', S.subscription_id)
                           /\ Get(window_managers', S.subscription_id)
                                 = Get(window_managers, S.subscription_id)
                  /\ CountFor(last'.notifications, "complex", S.subscription_id) = 0]_vars

\* C3 witness: an event failed the gate of a complex subscription that holds
\* a buffered sample.
C3_Witness ==
    /\ last.op = "match"
    /\ \E S \in Registered(complex_subscriptions) :
          /\ ~NonWindowedHold(last.event, S)
          /\ Has(window_managers, S.subscription_id)
          /\ \E e \in Range(Get(window_managers, S.subscription_id)) : e.v.window # <<>>

\* C6: after remove_subscription(id), no later match_event returns a
\* notification whose subscription_id is id, unless id was added again.
C6_NoNotificationAfterRemove ==
    last.op = "match" =>
        \A n \in Range(last.notifications) : n.subscription_id \notin removed

\* C9: an exception raised while one subscription is evaluated does not
\* abort the others: every simple subscription whose conditions all hold on
\* the event still has its notification in what match_event hands back.
C9_ErrorDoesNotAbortOthers ==
    (last.op = "match" /\ last.raised) =>
        \A S \in Registered(simple_subscriptions) :
            AllConditionsHold(last.event, S)
                => CountFor(last.notifications, "simple", S.subscription_id) = 1

RecognizedAggregations == {"avg", "max", "min", "sum"}

\* The subscriptions add must reject: no conditions, or a Complex one
\* without a windowed condition, with window_size <= 0 or with an
\* unrecognized aggregation type.
InvalidSubscription(S) ==
    \/ S.conditions = <<>>
    \/ /\ S.type = "COMPLEX"
       /\ \/ \A c \in Range(S.conditions) : ~c.is_windowed
          \/ S.window_config.window_size <= 0
          \/ S.window_config.aggregation_type \notin RecognizedAggregations

IsRegistered(S) ==
    \/ S \in Registered(simple_subscriptions)
    \/ S \in Registered(complex_subscriptions)

\* C10: add_subscription of an invalid subscription fails and registers
\* nothing.
C10_InvalidRejected ==
    (last.op = "add" /\ InvalidSubscription(last.subscription)) =>
        /\ last.raised
        /\ ~IsRegistered(last.subscription)

(***************************************************************************)
(* Properties of the windows (SpecWindow)                                  *)
(***************************************************************************)

WindowedConditions(S) == {c \in Range(S.conditions) : c.is_windowed}

WindowedIndexes(S) == {i \in 1..Len(S.conditions) : S.conditions[i].is_windowed}

\* The last n items of seq.
LastN(seq, n) == [i \in 1..n |-> seq[Len(seq) - n + i]]

Total(seq) == LET RECURSIVE upto(_)
                  upto(i) == IF i = 0 THEN 0 ELSE upto(i - 1) + seq[i]
              IN  upto(Len(seq))

\* The aggregate the window configuration asks for over the values, as a
\* rational; a type that is none of max, min, sum is the mean.
IsAggregateOf(aggregated_value, aggregation_type, values) ==
    LET num == aggregated_value.num
        den == aggregated_value.den
    IN  IF aggregation_type = "max"
        THEN /\ \E v \in Range(values) : num = v * den
             /\ \A v \in Range(values) : num >= v * den
        ELSE IF aggregation_type = "min"
        THEN /\ \E v \in Range(values) : num = v * den
             /\ \A v \in Range(values) : num <= v * den
        ELSE IF aggregation_type = "sum"
        THEN num = Total(values) * den
        ELSE num * Len(values) = Total(values) * den

\* The add_value calls the last match_event made for the subscription id.
CallsFor(subscription_id) ==
    {i \in 1..Len(last.adds) : last.adds[i].subscription_id = subscription_id}

\* C4: tumbling window: for a registered complex subscription with one
\* windowed condition and window size N >= 1, an event fires the window
\* exactly when it delivers the N-th, 2N-th, ... sample since the
\* subscription was added, the aggregate is that of the last N samples
\* delivered, and an event that delivers no sample returns no complex
\* notification for the subscription.
C4_TumblingWindow ==
    last.op = "match" =>
        \A S \in Registered(complex_subscriptions) :
            (Cardinality(WindowedIndexes(S)) = 1 /\ S.window_config.window_size >= 1) =>
                LET N       == S.window_config.window_size
                    f       == (CHOOSE c \in WindowedConditions(S) : TRUE).field_name
                    history == samples[S.subscription_id][f].values
                    calls   == CallsFor(S.subscription_id)
                IN  /\ Cardinality(calls) <= 1
                    /\ \A i \in calls :
                          /\ last.adds[i].window_full <=> (Len(history) % N = 0)
                          /\ last.adds[i].window_full =>
                                /\ Len(history) >= N
                                /\ IsAggregateOf(last.adds[i].aggregated_value,
                                                 S.window_config.aggregation_type,
                                                 LastN(history, N))
                    /\ calls = {} =>
                          CountFor(last.notifications, "complex", S.subscription_id) = 0

\* C4 witness: a window of size 2 fires on its fourth sample, the two
\* samples of the second window differing from each other.
C4_Witness ==
    /\ last.op = "match"
    /\ \E S \in Registered(complex_subscriptions) :
          /\ Cardinality(WindowedIndexes(S)) = 1
          /\ S.window_config.window_size = 2
          /\ \E i \in CallsFor(S.subscription_id) :
                /\ last.adds[i].window_full
                /\ LET history == samples[S.subscription_id][last.adds[i].field_name].values
                   IN  Len(history) = 4 /\ history[3] # history[4]

\* C5: for every registered complex subscription with a windowed condition
\* on field f and window size N >= 1, the complex notifications emitted for
\* f number at most floor(k / N), k being the events that passed the gate
\* and carried a value for f's base field.
C5_AtMostOncePerNSamples ==
    \A S \in Registered(complex_subscriptions) :
        \A c \in WindowedConditions(S) :
            S.window_config.window_size >= 1 =>
                emitted[S.subscription_id][c.field_name] * S.window_config.window_size
                    <= samples[S.subscription_id][c.field_name].events

\* C5 for the subscriptions whose windowed conditions have distinct field
\* names.
C5_DistinctFields ==
    \A S \in Registered(complex_subscriptions) :
        (\A i, j \in WindowedIndexes(S) :
            S.conditions[i].field_name = S.conditions[j].field_name => i = j) =>
            \A c \in WindowedConditions(S) :
                S.window_config.window_size >= 1 =>
                    emitted[S.subscription_id][c.field_name] * S.window_config.window_size
                        <= samples[S.subscription_id][c.field_name].events

(***************************************************************************)
(* The broker: the publisher and the subscriber thread (SpecBroker)        *)
(*                                                                         *)
(* EcommerceBroker.start runs _publisher_listener (the ingress worker) and *)
(* _subscriber_handler (the control worker) as two threads on the one      *)
(* SubscriptionMatcher, with no lock.  A step is one access to the shared  *)
(* dicts: a store, a delete, a next() of a dict iterator, or the windowed  *)
(* loop of _match_complex_subscription for one subscription.  What a       *)
(* thread does on its locals only is folded into the step before it.       *)
(***************************************************************************)

MaxEvents == 2

MaxRequests == 3

Workers == {"ingress", "control"}

BrokerEvents == {UserRating("e1", Electronics, 400), UserRating("e3", Clothing, 500)}

\* What the publisher socket delivers: a BrokerMessage of type EVENT, one of
\* another type, and bytes that ParseFromString rejects.
EventMessage(event) == [type |-> "EVENT", decodes |-> TRUE, event |-> event]

NotificationMessage == [type |-> "NOTIFICATION", decodes |-> TRUE, event |-> None]

MalformedMessage == [type |-> "", decodes |-> FALSE, event |-> None]

BrokerMessages ==
    {EventMessage(event) : event \in BrokerEvents} \cup {NotificationMessage, MalformedMessage}

Address(subscription) == Str("tcp://" \o subscription.subscriber_id)

\* The JSON requests of the management socket.  before is what the handler
\* found when it took the request: the two subscription maps, the manager
\* map and the addresses.
Subscribe(subscription) ==
    [type |-> "subscribe", subscription |-> subscription,
     subscription_id |-> subscription.subscription_id, i |-> 1,
     address |-> Address(subscription), before |-> None]

\* subscribe without the 'address' field
SubscribeNoAddress(subscription) ==
    [Subscribe(subscription) EXCEPT !.address = None]

\* subscribe whose 'subscription' is not the hex of a Subscription
SubscribeUndecodable ==
    [type |-> "subscribe", subscription |-> None, subscription_id |-> "", i |-> 1,
     address |-> Str("tcp://nobody"), before |-> None]

Unsubscribe(subscription_id) ==
    [type |-> "unsubscribe", subscription |-> None, subscription_id |-> subscription_id, i |-> 1,
     address |-> None, before |-> None]

Status ==
    [type |-> "status", subscription |-> None, subscription_id |-> "", i |-> 1,
     address |-> None, before |-> None]

\* a request of a type the handler does not know
UnknownRequest == [Status EXCEPT !.type = "ping"]

\* bytes that json.loads rejects, or JSON without 'type'
MalformedRequest == [Status EXCEPT !.type = ""]

NegativeWindow(id) ==
    Sub(id, "COMPLEX", <<Cond(avg_rating, "GREATER_EQUAL", v1, TRUE)>>, -1, "avg")

\* The subscription, registered by another subscriber.
OtherSubscriber(subscription) == [subscription EXCEPT !.subscriber_id = "subscriber-s9"]

BrokerRequests ==
    {Subscribe(ComplexAvg("s1")), Subscribe(SimpleCategory("s2")),
     Subscribe(OtherSubscriber(SimpleCategory("s1"))),
     Unsubscribe("s1"), Unsubscribe("s2"), Status,
     SubscribeNoAddress(SimpleCategory("s2")), Subscribe(NegativeWindow("s1")),
     SubscribeUndecodable, UnknownRequest, MalformedRequest}

InitBroker ==
    /\ MatcherInit
    /\ samples = <<>>
    /\ emitted = <<>>
    /\ removed = {}
    /\ pc = [w \in Workers |-> "poll"]
    /\ it = None
    /\ req = None
    /\ seen = {}
    /\ budget = [w \in Workers |-> IF w = "ingress" THEN MaxEvents ELSE MaxRequests]
    /\ BrokerInit
    /\ Serving
    /\ NoSubscriber

\* What the publisher thread writes, and what the subscriber thread writes.
ingressOwned == <<events_processed, notifications_sent, egress>>

controlOwned == <<subscriber_addresses, response, answered>>

\* The position of key k in dict d.
IndexOf(d, k) == CHOOSE i \in 1..Len(d) : d[i].k = k

\* A dict iterator of CPython walks the entry table by index and a delete
\* leaves a hole in the table: the entries after the hole keep their index.
\* In the sequence that stands for the dict the entries after a deleted one
\* move down by one, and so does the position of an iterator that is past it.
AfterDel(d, k, loops) ==
    IF it # None /\ pc["ingress"] \in loops /\ Has(d, k) /\ IndexOf(d, k) < it.pos
    THEN [it EXCEPT !.pos = it.pos - 1]
    ELSE it

\* Every windowed condition of S has its manager in window_managers.
ManagersPresent(S) ==
    /\ Has(window_managers, S.subscription_id)
    /\ \A i \in 1..Len(S.conditions) :
          S.conditions[i].is_windowed =>
              Has(Get(window_managers, S.subscription_id), S.conditions[i].field_name)

\* Mutant: a _send_notification that counts a send that failed.
send_notification_counting_failures(sent, ok) == sent + 1

\* Mutant: a _send_notification that loses its count when a send fails.
send_notification_resetting(sent, ok) == IF ok THEN sent + 1 ELSE 0

\* _send_notification: notifications_sent after a send that succeeded (ok)
\* or raised; the exception is logged and goes no further.
send_notification(sent, ok) == IF ok THEN sent + 1 ELSE sent

\* str.encode('utf-8')
encode(s) == [t |-> "bytes", utf8 |-> s]

\* Mutant: a send under the subscription_id as topic.
send_multipart_by_subscription(notification, ok) ==
    [topic |-> encode(notification.subscription_id), notification |-> notification, ok |-> ok]

\* subscriber_socket.send_multipart([topic, message_data]) of
\* _send_notification: the topic is the encoded subscriber_id of the
\* notification, the message carries the notification; ok when it did not
\* raise.
send_multipart(notification, ok) ==
    [topic |-> encode(notification.subscriber_id), notification |-> notification, ok |-> ok]

\* Mutant: the loop of _handle_event with a _send_notification that lets
\* the exception of a failed send out.
RECURSIVE handle_event_sends_aborting(_, _, _, _)
handle_event_sends_aborting(notifications, oks, i, acc) ==
    IF i > Len(notifications) THEN acc
    ELSE LET next == [egress |-> Append(acc.egress, send_multipart(notifications[i], oks[i])),
                      notifications_sent |-> send_notification(acc.notifications_sent, oks[i])]
         IN  IF oks[i] THEN handle_event_sends_aborting(notifications, oks, i + 1, next)
             ELSE next

\* The loop of _handle_event over the notifications from i on: each is
\* passed to _send_notification, whose send succeeds or not as oks says.
\* acc.egress lists the sends so far, acc.notifications_sent is the counter.
RECURSIVE handle_event_sends(_, _, _, _)
handle_event_sends(notifications, oks, i, acc) ==
    IF i > Len(notifications) THEN acc
    ELSE handle_event_sends(notifications, oks, i + 1,
             [egress |-> Append(acc.egress, send_multipart(notifications[i], oks[i])),
              notifications_sent |-> send_notification(acc.notifications_sent, oks[i])])

\* Mutant: a _process_publisher_event that counts every message.
events_processed_counting_all(message, processed) == processed + 1

\* _process_publisher_event: events_processed after the message.  Bytes that
\* do not parse raise inside the try and are logged; a message of another
\* type is passed over; an event is counted once _handle_event is back,
\* which it always is, as it catches what match_event raises.
events_processed_after(message, processed) ==
    IF message.decodes /\ message.type = "EVENT" THEN processed + 1 ELSE processed

\* The sends of _handle_event and their counting, given the outcome of each
\* send.
HandleEventSends(r) ==
    /\ egress' = r.egress
    /\ notifications_sent' = r.notifications_sent

\* _handle_event is done: matcher.match_event returned the notifications, or
\* raised and the exception was logged; _process_publisher_event counts the
\* event and _publisher_listener polls again.
HandleEventDone(notifications, raised) ==
    /\ last' = [NoCall EXCEPT !.op = "match", !.event = it.event,
                              !.notifications = IF raised THEN <<>> ELSE notifications,
                              !.raised = raised]
    /\ \E oks \in [1..Len(IF raised THEN <<>> ELSE notifications) -> BOOLEAN] :
          HandleEventSends(handle_event_sends(IF raised THEN <<>> ELSE notifications, oks, 1,
                                              [egress |-> <<>>,
                                               notifications_sent |-> notifications_sent]))
    /\ events_processed' = events_processed_after(EventMessage(it.event), events_processed)
    /\ it' = None
    /\ pc' = [pc EXCEPT !["ingress"] = "poll"]

\* _publisher_listener receives a message and _process_publisher_event
\* parses it.  For an event _handle_event calls match_event, whose first
\* loop takes an iterator on simple_subscriptions.values(); bytes that do
\* not parse and messages of another type end here.
PublisherListener(message) ==
    /\ pc["ingress"] = "poll"
    /\ budget["ingress"] > 0
    /\ budget' = [budget EXCEPT !["ingress"] = @ - 1]
    /\ IF message.decodes /\ message.type = "EVENT"
       THEN /\ it' = [event |-> message.event, notifications |-> <<>>, pos |-> 1,
                      used |-> Len(simple_subscriptions), subscription |-> None]
            /\ pc' = [pc EXCEPT !["ingress"] = "simple_loop"]
            /\ UNCHANGED <<last, ingressOwned>>
       ELSE /\ last' = [NoCall EXCEPT !.op = IF message.decodes THEN "passed_over"
                                             ELSE "decode_error"]
            /\ events_processed' = events_processed_after(message, events_processed)
            /\ UNCHANGED <<it, pc, notifications_sent, egress>>
    /\ UNCHANGED <<matcherVars, req, seen, controlOwned>>

\* One round of the first loop of match_event: next() raises RuntimeError
\* when the dict changed size since the iterator was made; an exhausted
\* iterator starts the second loop on complex_subscriptions.values().
MatchEventSimpleLoop ==
    /\ pc["ingress"] = "simple_loop"
    /\ IF Len(simple_subscriptions) # it.used
       THEN HandleEventDone(<<>>, TRUE)
       ELSE IF it.pos > Len(simple_subscriptions)
       THEN /\ it' = [it EXCEPT !.pos = 1, !.used = Len(complex_subscriptions)]
            /\ pc' = [pc EXCEPT !["ingress"] = "complex_loop"]
            /\ UNCHANGED <<last, ingressOwned>>
       ELSE LET subscription == simple_subscriptions[it.pos].v IN
            /\ it' = [it EXCEPT !.pos = @ + 1,
                                !.notifications =
                                    IF match_simple_subscription(it.event, subscription)
                                    THEN Append(@, create_simple_notification(it.event, subscription))
                                    ELSE @]
            /\ UNCHANGED <<pc, last, ingressOwned>>
    /\ UNCHANGED <<matcherVars, req, seen, budget, controlOwned>>

\* One round of the second loop of match_event: next() as above; the
\* subscription fetched goes through the first loop of
\* _match_complex_subscription, which reads the event and the subscription
\* only.  An exhausted iterator returns the notifications.
MatchEventComplexLoop ==
    /\ pc["ingress"] = "complex_loop"
    /\ IF Len(complex_subscriptions) # it.used
       THEN HandleEventDone(<<>>, TRUE)
       ELSE IF it.pos > Len(complex_subscriptions)
       THEN HandleEventDone(it.notifications, FALSE)
       ELSE LET subscription == complex_subscriptions[it.pos].v IN
            /\ it' = [it EXCEPT !.pos = @ + 1, !.subscription = subscription]
            /\ pc' = [pc EXCEPT !["ingress"] =
                          IF non_windowed_match(it.event, subscription)
                          THEN "windowed_loop" ELSE "complex_loop"]
            /\ UNCHANGED <<last, ingressOwned>>
    /\ UNCHANGED <<matcherVars, req, seen, budget, controlOwned>>

\* The second loop of _match_complex_subscription for the subscription
\* fetched: window_managers[subscription_id][field_name] and add_value for
\* each windowed condition; KeyError or what add_value raised leaves
\* match_event.
MatchComplexWindowedLoop ==
    /\ pc["ingress"] = "windowed_loop"
    /\ LET r == process_windowed(it.event, it.subscription, 1,
                                 [window_managers |-> window_managers,
                                  notifications   |-> it.notifications,
                                  adds            |-> <<>>,
                                  err             |-> FALSE])
       IN  /\ window_managers' = r.window_managers
           /\ seen' = seen \cup {[subscription_id |-> it.subscription.subscription_id,
                                  managers        |-> ManagersPresent(it.subscription)]}
           /\ IF r.err
              THEN HandleEventDone(<<>>, TRUE)
              ELSE /\ it' = [it EXCEPT !.notifications = r.notifications, !.subscription = None]
                   /\ pc' = [pc EXCEPT !["ingress"] = "complex_loop"]
                   /\ UNCHANGED <<last, ingressOwned>>
    /\ UNCHANGED <<simple_subscriptions, complex_subscriptions, subscription_contexts,
                   req, budget, controlOwned>>

\* SubscriptionMatcher.get_statistics
get_statistics(simple, complex) ==
    [simple_subscriptions  |-> Len(simple),
     complex_subscriptions |-> Len(complex),
     total_subscriptions   |-> Len(simple) + Len(complex)]

\* EcommerceBroker.get_statistics (broker_id and uptime are not modelled)
broker_get_statistics ==
    [events_processed   |-> events_processed,
     notifications_sent |-> notifications_sent,
     subscriptions      |-> get_statistics(simple_subscriptions, complex_subscriptions)]

\* Mutant: a status branch that reports the simple subscriptions as the
\* total.
status_statistics_simple_only ==
    [simple_subscriptions  |-> Len(simple_subscriptions),
     complex_subscriptions |-> Len(complex_subscriptions),
     total_subscriptions   |-> Len(simple_subscriptions),
     events_processed      |-> events_processed,
     notifications_sent    |-> notifications_sent]

\* The statistics of a status response: those of the matcher, updated with
\* the two counters (uptime is not modelled).
status_statistics ==
    [simple_subscriptions  |-> Len(simple_subscriptions),
     complex_subscriptions |-> Len(complex_subscriptions),
     total_subscriptions   |-> Len(simple_subscriptions) + Len(complex_subscriptions),
     events_processed      |-> events_processed,
     notifications_sent    |-> notifications_sent]

\* A response of _handle_subscriber_request: its status, what its message
\* says and the id the message names, and its statistics.
Response(status, text, subscription_id, statistics) ==
    [status |-> status, text |-> text, subscription_id |-> subscription_id,
     statistics |-> statistics]

\* The response of the except branch.
ErrorResponse(text) == Response("error", text, "", None)

\* The requests _handle_subscriber_request answers without calling the
\* matcher: bytes that are not JSON or JSON without 'type' and a subscription
\* that does not parse raise inside the try; status; an unknown type.
AnsweredAtOnce(request) ==
    \/ request.type \notin {"subscribe", "unsubscribe"}
    \/ request.type = "subscribe" /\ request.subscription = None

\* Mutant: a handler whose else branch answers success.
response_at_once_accepting(request, statistics) ==
    IF request.type = "status" THEN Response("success", "", "", statistics)
    ELSE IF request.type = "subscribe" THEN ErrorResponse("undecodable subscription")
    ELSE IF request.type = "" THEN ErrorResponse("malformed request")
    ELSE Response("success", "Unknown request type", "", None)

\* The response to a request answered without a call that changes the
\* matcher: that of the status branch, of the else branch, or of the except
\* branch.
response_at_once(request, statistics) ==
    IF request.type = "status" THEN Response("success", "", "", statistics)
    ELSE IF request.type = "subscribe" THEN ErrorResponse("undecodable subscription")
    ELSE IF request.type = "" THEN ErrorResponse("malformed request")
    ELSE ErrorResponse("Unknown request type")

\* Mutant: a subscribe branch that does not remember the address.
store_address_skipped(addresses, request, raised) == addresses

\* The subscribe branch after add_subscription: request['address'] is stored
\* under the subscriber_id, unless add_subscription raised or the request
\* has no 'address' (KeyError).
store_address(addresses, request, raised) ==
    IF request.type = "subscribe" /\ ~raised /\ request.address # None
    THEN Put(addresses, request.subscription.subscriber_id, request.address)
    ELSE addresses

\* The response to a subscribe or unsubscribe request once the matcher call
\* is over; raised when add_subscription raised.
response_after(request, raised) ==
    IF request.type = "unsubscribe"
    THEN Response("success", "removed", request.subscription_id, None)
    ELSE IF raised THEN ErrorResponse("exception in add_subscription")
    ELSE IF request.address = None THEN ErrorResponse("'address'")
    ELSE Response("success", "added", request.subscription_id, None)

\* Mutant: a _subscriber_handler that sends no response.
send_response_dropped(sent) == sent

\* sub_mgmt_socket.send(response): the responses sent so far.
send_response(sent) == sent + 1

\* _handle_subscriber_request is done: the response is sent and
\* _subscriber_handler polls again.
RequestDone(op, raised) ==
    /\ last' = [NoCall EXCEPT !.op = op, !.subscription = req.subscription,
                              !.subscription_id = req.subscription_id, !.raised = raised]
    /\ subscriber_addresses' = store_address(subscriber_addresses, req, raised)
    /\ response' = response_after(req, raised)
    /\ answered' = send_response(answered)
    /\ req' = None
    /\ pc' = [pc EXCEPT !["control"] = "poll"]

\* What a request finds when the handler takes it.
Before ==
    [simple_subscriptions  |-> simple_subscriptions,
     complex_subscriptions |-> complex_subscriptions,
     window_managers       |-> window_managers,
     subscriber_addresses  |-> subscriber_addresses]

\* _subscriber_handler receives a request and _handle_subscriber_request
\* parses it: subscribe calls add_subscription, unsubscribe calls
\* remove_subscription, the others are answered at once.
SubscriberHandler(request) ==
    /\ pc["control"] = "poll"
    /\ budget["control"] > 0
    /\ budget' = [budget EXCEPT !["control"] = @ - 1]
    /\ IF AnsweredAtOnce(request)
       THEN /\ last' = [NoCall EXCEPT !.op = IF request.type = "status" THEN "status"
                                             ELSE "rejected",
                                      !.subscription_id = request.type]
            /\ response' = response_at_once(request, status_statistics)
            /\ answered' = send_response(answered)
            /\ UNCHANGED <<pc, req>>
       ELSE /\ req' = [request EXCEPT !.before = Before]
            /\ pc' = [pc EXCEPT !["control"] =
                          IF request.type = "subscribe" THEN "add_subscription"
                          ELSE "remove_subscription"]
            /\ UNCHANGED <<last, response, answered>>
    /\ UNCHANGED <<matcherVars, it, seen, subscriber_addresses, ingressOwned>>

\* add_subscription: the store of the subscription in its dict.  A simple
\* subscription is then registered; a complex one goes on to
\* _setup_window_managers.
AddSubscriptionStore ==
    /\ pc["control"] = "add_subscription"
    /\ IF req.subscription.type = "SIMPLE"
       THEN /\ simple_subscriptions' = Put(simple_subscriptions, req.subscription_id,
                                            req.subscription)
            /\ RequestDone("add", FALSE)
            /\ UNCHANGED complex_subscriptions
       ELSE /\ complex_subscriptions' = Put(complex_subscriptions, req.subscription_id,
                                             req.subscription)
            /\ pc' = [pc EXCEPT !["control"] = "setup_window_managers"]
            /\ UNCHANGED <<simple_subscriptions, req, last, controlOwned>>
    /\ UNCHANGED <<window_managers, subscription_contexts, it, seen, budget, ingressOwned>>

\* _setup_window_managers: self.window_managers[subscription_id] = {}
SetupWindowManagers ==
    /\ pc["control"] = "setup_window_managers"
    /\ window_managers' = Put(window_managers, req.subscription_id, <<>>)
    /\ pc' = [pc EXCEPT !["control"] = "setup_contexts"]
    /\ UNCHANGED <<simple_subscriptions, complex_subscriptions, subscription_contexts,
                   last, it, req, seen, budget, controlOwned, ingressOwned>>

\* _setup_window_managers: self.subscription_contexts[subscription_id] = {}
SetupContexts ==
    /\ pc["control"] = "setup_contexts"
    /\ subscription_contexts' = Put(subscription_contexts, req.subscription_id, <<>>)
    /\ pc' = [pc EXCEPT !["control"] = "setup_conditions"]
    /\ UNCHANGED <<simple_subscriptions, complex_subscriptions, window_managers,
                   last, it, req, seen, budget, controlOwned, ingressOwned>>

\* The windowed conditions of the subscription from index i on.
WindowedFrom(subscription, i) ==
    {j \in i..Len(subscription.conditions) : subscription.conditions[j].is_windowed}

\* One round of the loop of _setup_window_managers: the next windowed
\* condition gets its WindowManager, stored under its field_name; a raising
\* WindowManager() ends the request with an error response.
SetupCondition ==
    /\ pc["control"] = "setup_conditions"
    /\ LET todo == WindowedFrom(req.subscription, req.i) IN
       IF todo = {}
       THEN /\ RequestDone("add", FALSE)
            /\ UNCHANGED window_managers
       ELSE LET j    == CHOOSE j \in todo : \A k \in todo : j <= k
                made == WindowManager(req.subscription.window_config.window_size,
                                      req.subscription.window_config.aggregation_type)
            IN  IF made.err
                THEN /\ RequestDone("add", TRUE)
                     /\ UNCHANGED window_managers
                ELSE /\ window_managers' =
                            Put(window_managers, req.subscription_id,
                                Put(Get(window_managers, req.subscription_id),
                                    req.subscription.conditions[j].field_name, made.wm))
                     /\ req' = [req EXCEPT !.i = j + 1]
                     /\ UNCHANGED <<pc, last, controlOwned>>
    /\ UNCHANGED <<simple_subscriptions, complex_subscriptions, subscription_contexts,
                   it, seen, budget, ingressOwned>>

\* remove_subscription: the if / elif on the two dicts and the del of the
\* entry found.
RemoveSubscriptionEntry ==
    /\ pc["control"] = "remove_subscription"
    /\ IF Has(simple_subscriptions, req.subscription_id)
       THEN /\ simple_subscriptions' = Del(simple_subscriptions, req.subscription_id)
            /\ it' = AfterDel(simple_subscriptions, req.subscription_id, {"simple_loop"})
            /\ RequestDone("remove", FALSE)
            /\ UNCHANGED complex_subscriptions
       ELSE IF Has(complex_subscriptions, req.subscription_id)
       THEN /\ complex_subscriptions' = Del(complex_subscriptions, req.subscription_id)
            /\ it' = AfterDel(complex_subscriptions, req.subscription_id,
                              {"complex_loop", "windowed_loop"})
            /\ pc' = [pc EXCEPT !["control"] = "remove_window_managers"]
            /\ UNCHANGED <<simple_subscriptions, req, last, controlOwned>>
       ELSE /\ RequestDone("remove", FALSE)
            /\ UNCHANGED <<simple_subscriptions, complex_subscriptions, it>>
    /\ UNCHANGED <<window_managers, subscription_contexts, seen, budget, ingressOwned>>

\* remove_subscription: del self.window_managers[subscription_id], if there
RemoveWindowManagers ==
    /\ pc["control"] = "remove_window_managers"
    /\ window_managers' = Del(window_managers, req.subscription_id)
    /\ pc' = [pc EXCEPT !["control"] = "remove_contexts"]
    /\ UNCHANGED <<simple_subscriptions, complex_subscriptions, subscription_contexts,
                   last, it, req, seen, budget, controlOwned, ingressOwned>>

\* remove_subscription: del self.subscription_contexts[subscription_id], if
\* there, and return
RemoveContexts ==
    /\ pc["control"] = "remove_contexts"
    /\ subscription_contexts' = Del(subscription_contexts, req.subscription_id)
    /\ RequestDone("remove", FALSE)
    /\ UNCHANGED <<simple_subscriptions, complex_subscriptions, window_managers,
                   it, seen, budget, ingressOwned>>

\* A step of the broker: the history of the one-call specifications stands
\* still.
NextBroker ==
    \/ \E message \in BrokerMessages : PublisherListener(message) /\ UNCHANGED <<historyVars, outsideVars>>
    \/ MatchEventSimpleLoop /\ UNCHANGED <<historyVars, outsideVars>>
    \/ MatchEventComplexLoop /\ UNCHANGED <<historyVars, outsideVars>>
    \/ MatchComplexWindowedLoop /\ UNCHANGED <<historyVars, outsideVars>>
    \/ \E request \in BrokerRequests : SubscriberHandler(request) /\ UNCHANGED <<historyVars, outsideVars>>
    \/ AddSubscriptionStore /\ UNCHANGED <<historyVars, outsideVars>>
    \/ SetupWindowManagers /\ UNCHANGED <<historyVars, outsideVars>>
    \/ SetupContexts /\ UNCHANGED <<historyVars, outsideVars>>
    \/ SetupCondition /\ UNCHANGED <<historyVars, outsideVars>>
    \/ RemoveSubscriptionEntry /\ UNCHANGED <<historyVars, outsideVars>>
    \/ RemoveWindowManagers /\ UNCHANGED <<historyVars, outsideVars>>
    \/ RemoveContexts /\ UNCHANGED <<historyVars, outsideVars>>

SpecBroker == InitBroker /\ [][NextBroker]_vars

(***************************************************************************)
(* Properties of the broker (SpecBroker)                                   *)
(***************************************************************************)

InMatchEvent == pc["ingress"] \in {"simple_loop", "complex_loop", "windowed_loop"}

InAddSubscription ==
    pc["control"] \in {"add_subscription", "setup_window_managers", "setup_contexts",
                       "setup_conditions"}

InRemoveSubscription ==
    pc["control"] \in {"remove_subscription", "remove_window_managers", "remove_contexts"}

\* C7: every complex subscription the ingress worker fetched from the
\* registry and took to its windowed loop had all its window managers in
\* window_managers at that moment: none was still to be created, none
\* already deleted.
C7_NeverPartiallyRegistered == \A o \in seen : o.managers

\* C8: the ingress worker is never inside match_event while the control
\* worker is inside add_subscription or remove_subscription.
C8_Serialized == ~(InMatchEvent /\ (InAddSubscription \/ InRemoveSubscription))

\* A step in which the control worker answers the subscribe request it was
\* serving.
SubscribeAnswered ==
    /\ req # None
    /\ req.type = "subscribe"
    /\ answered' = answered + 1

\* C11: whenever a subscribe request is answered with status "error", the
\* two subscription maps, the window manager map and subscriber_addresses
\* are what they were when the handler took the request.
C11_ErrorLeavesRegistry ==
    [][(SubscribeAnswered /\ response'.status = "error") => Before' = req.before]_vars

(***************************************************************************)
(* Properties of add_subscription and remove_subscription (Spec)           *)
(***************************************************************************)

\* remove_subscription(subscription_id) on what add_subscription left
remove_after(added, subscription_id) ==
    remove_subscription(added.simple_subscriptions, added.complex_subscriptions,
                        added.window_managers, added.subscription_contexts, subscription_id)

\* add_subscription(s) followed by remove_subscription(s.subscription_id),
\* from the present maps
add_then_remove(s) ==
    remove_after(add_subscription(simple_subscriptions, complex_subscriptions,
                                  window_managers, subscription_contexts, s),
                 s.subscription_id)

\* The simple map, the complex map and the manager map of r are the present
\* ones.
SameRegistry(r) ==
    /\ r.simple_subscriptions = simple_subscriptions
    /\ r.complex_subscriptions = complex_subscriptions
    /\ r.window_managers = window_managers

Fresh(subscription_id) ==
    ~Has(simple_subscriptions, subscription_id) /\ ~Has(complex_subscriptions, subscription_id)

\* C12 as stated: in every matcher state and for every subscription s,
\* add_subscription(s) followed by remove_subscription(s.subscription_id)
\* gives back the simple map, the complex map and the manager map.
C12_AddThenRemove == \A s \in Subscriptions : SameRegistry(add_then_remove(s))

\* C12, amended: the same, for every subscription s whose id is in neither
\* map before the add.
C12_AddThenRemoveFresh ==
    \A s \in Subscriptions : Fresh(s.subscription_id) => SameRegistry(add_then_remove(s))

\* C12: a state with a subscription registered and a sample in its window,
\* in which a complex subscription under a fresh id can be added (the add
\* changes the maps) and removed again.
C12_Witness ==
    /\ Has(complex_subscriptions, "s1")
    /\ \E f \in Keys(Get(window_managers, "s1")) :
          Get(Get(window_managers, "s1"), f).window # <<>>
    /\ Fresh("s2")
    /\ ~SameRegistry(add_subscription(simple_subscriptions, complex_subscriptions,
                                      window_managers, subscription_contexts, ComplexAvg("s2")))
    /\ SameRegistry(add_then_remove(ComplexAvg("s2")))

\* C13: a remove_subscription of an id that is in neither map raises no
\* error and leaves the simple map, the complex map, the window managers
\* (and the contexts) and the statistics as they were.
C13_RemoveAbsentIsNoOp ==
    [][(last'.op = "remove" /\ Fresh(last'.subscription_id)) =>
           /\ ~last'.raised
           /\ matcherVars' = matcherVars
           /\ get_statistics(simple_subscriptions', complex_subscriptions')
                  = get_statistics(simple_subscriptions, complex_subscriptions)]_vars

\* C13: remove_subscription was called with the id nobody subscribes under,
\* on a matcher that holds a complex subscription with a sample in its
\* window.
C13_Witness ==
    /\ last.op = "remove"
    /\ last.subscription_id = "s3"
    /\ Has(complex_subscriptions, "s1")
    /\ Has(window_managers, "s1")
    /\ \E f \in Keys(Get(window_managers, "s1")) :
          Get(Get(window_managers, "s1"), f).window # <<>>

\* The step in which _handle_event and _process_publisher_event finish an
\* event: the ingress worker leaves match_event and polls again.
EventHandled == pc["ingress"] # "poll" /\ pc'["ingress"] = "poll"

\* A step of the control worker.
ControlStep == pc'["control"] # pc["control"] \/ budget'["control"] # budget["control"]

\* The notifications passed to _send_notification, in order.
Handed(sends) == [i \in 1..Len(sends) |-> sends[i].notification]

\* The number of sends that succeeded.
Succeeded(sends) == Cardinality({i \in 1..Len(sends) : sends[i].ok})

\* C14: when the send of one notification of an event fails, every
\* notification the matcher returned for the event is still passed to the
\* egress socket, and notifications_sent grows by the number of sends that
\* succeeded.
C14_FailedSendDoesNotStopOthers ==
    [][EventHandled =>
           /\ Handed(egress') = last'.notifications
           /\ notifications_sent' = notifications_sent + Succeeded(egress')]_vars

\* C14: an event had two notifications, the send of the first failed and the
\* second was sent.
C14_Witness ==
    /\ last.op = "match"
    /\ Len(last.notifications) = 2
    /\ Len(egress) = 2
    /\ ~egress[1].ok
    /\ egress[2].ok

\* C15 as stated: an event handled adds 1 to events_processed and the number
\* of notifications passed to egress to notifications_sent; no step of the
\* control worker changes either counter.
C15_CountersPerEvent ==
    [][/\ EventHandled =>
              /\ events_processed' = events_processed + 1
              /\ notifications_sent' = notifications_sent + Len(egress')
       /\ ControlStep => UNCHANGED <<events_processed, notifications_sent>>]_vars

\* C15 amended: an event handled adds 1 to events_processed and the number
\* of notifications whose send succeeded to notifications_sent; no step of
\* the control worker changes either counter.
C15_CountersPerEventSent ==
    [][/\ EventHandled =>
              /\ events_processed' = events_processed + 1
              /\ notifications_sent' = notifications_sent + Succeeded(egress')
       /\ ControlStep => UNCHANGED <<events_processed, notifications_sent>>]_vars

\* C15: two events were handled, the second with a send that succeeded and
\* one that failed, and the control worker has answered requests since.
C15_Witness ==
    /\ events_processed = 2
    /\ Len(egress) = 2
    /\ egress[1].ok
    /\ ~egress[2].ok
    /\ notifications_sent >= 1
    /\ budget["control"] = 0
    /\ pc["control"] = "poll"
    /\ last.op # "match"

\* C16: events_processed and notifications_sent never decrease from one
\* state to the next.
C16_CountersNeverDecrease ==
    [][/\ events_processed' >= events_processed
       /\ notifications_sent' >= notifications_sent]_vars

\* C16: both counters have grown, and the last event handled had a send
\* that failed after an earlier event had its notification sent.
C16_Witness ==
    /\ events_processed = 2
    /\ notifications_sent = 1
    /\ Len(egress) = 1
    /\ ~egress[1].ok

\* The step in which _process_publisher_event drops a message: bytes that
\* do not parse, or a message that is not an event.
MessageDropped ==
    \E message \in BrokerMessages :
        /\ ~(message.decodes /\ message.type = "EVENT")
        /\ PublisherListener(message)

\* C17: an ingress message that does not decode as an event is dropped:
\* match_event is not entered and the matcher keeps its state, nothing is
\* sent, events_processed and notifications_sent keep their values, and
\* _publisher_listener polls for the next message.
C17_UndecodableDropped ==
    [][MessageDropped =>
           /\ pc'["ingress"] = "poll"
           /\ it' = None
           /\ matcherVars' = matcherVars
           /\ egress' = egress
           /\ events_processed' = events_processed
           /\ notifications_sent' = notifications_sent]_vars

\* C17: bytes that do not parse were dropped by a broker that holds a
\* subscription and has handled an event and sent its notification.
C17_Witness ==
    /\ last.op = "decode_error"
    /\ pc["ingress"] = "poll"
    /\ Has(simple_subscriptions, "s2")
    /\ events_processed = 1
    /\ notifications_sent = 1

\* The drop counter as the statistics report it.
notifications_dropped(statistics) ==
    IF "notifications_dropped" \in DOMAIN statistics
    THEN statistics.notifications_dropped
    ELSE 0

\* The notifications the statistics account for, sent or dropped.
Counted(statistics) == statistics.notifications_sent + notifications_dropped(statistics)

\* C18: every notification the matcher returned for an event is counted in
\* the statistics, as sent or, when its send failed, as dropped.
C18_SentOrDropped ==
    [][EventHandled =>
           Counted(broker_get_statistics') =
               Counted(broker_get_statistics) + Len(last'.notifications)]_vars

\* The requests _subscriber_handler has received.
Received == MaxRequests - budget["control"]

\* C19: every request received has one response, sent before the next
\* request is read; a request that does not parse, has an unknown type or
\* carries a subscription that does not parse is answered with status
\* "error", and _subscriber_handler goes on to the requests after it.
C19_OneResponsePerRequest ==
    /\ answered = Received - (IF pc["control"] = "poll" THEN 0 ELSE 1)
    /\ last.op = "rejected" => response.status = "error"
    /\ (pc["control"] = "poll" /\ budget["control"] > 0) =>
           \A request \in BrokerRequests : ENABLED SubscriberHandler(request)

\* C19: the first request was malformed and was answered; the worker is
\* polling with requests still to come.
C19_Witness ==
    /\ last.op = "rejected"
    /\ last.subscription_id = ""
    /\ response = ErrorResponse("malformed request")
    /\ answered = 1
    /\ Received = 1
    /\ pc["control"] = "poll"
    /\ budget["control"] > 0

\* C20: a subscribe request answered with status "success" leaves the
\* subscription in the dict of its type and the address of the request
\* under its subscriber_id, and the message names the subscription_id.
C20_SuccessMeansRegistered ==
    [][(SubscribeAnswered /\ response'.status = "success") =>
           /\ IF req.subscription.type = "SIMPLE"
              THEN /\ Has(simple_subscriptions', req.subscription_id)
                   /\ Get(simple_subscriptions', req.subscription_id) = req.subscription
              ELSE /\ Has(complex_subscriptions', req.subscription_id)
                   /\ Get(complex_subscriptions', req.subscription_id) = req.subscription
           /\ Has(subscriber_addresses', req.subscription.subscriber_id)
           /\ Get(subscriber_addresses', req.subscription.subscriber_id) = req.address
           /\ response'.text = "added"
           /\ response'.subscription_id = req.subscription.subscription_id]_vars

\* C20: the subscribe request of the complex subscription s1 was answered
\* with success.
C20_Witness ==
    /\ last.op = "add"
    /\ ~last.raised
    /\ response = Response("success", "added", "s1", None)
    /\ Has(complex_subscriptions, "s1")
    /\ Len(subscriber_addresses) > 0

\* A step in which the control worker answers the unsubscribe request it was
\* serving.
UnsubscribeAnswered ==
    /\ req # None
    /\ req.type = "unsubscribe"
    /\ answered' = answered + 1

\* C21: an unsubscribe request that carries a subscription_id is answered
\* with status "success", whether the id is registered or not, and when it
\* is answered the id is a key of neither subscription map.
C21_UnsubscribeRemoves ==
    [][UnsubscribeAnswered =>
           /\ response'.status = "success"
           /\ ~Has(simple_subscriptions', req.subscription_id)
           /\ ~Has(complex_subscriptions', req.subscription_id)]_vars

\* What no request but subscribe and unsubscribe may change: the matcher,
\* the addresses and the two counters.
BrokerState == <<matcherVars, subscriber_addresses, events_processed, notifications_sent>>

\* C22: a request whose type is none of subscribe, unsubscribe and status is
\* answered with status "error" and the message "Unknown request type", and
\* the step leaves the registry, the addresses and the counters unchanged.
C22_UnknownTypeRejected ==
    [][SubscriberHandler(UnknownRequest) =>
           /\ response' = ErrorResponse("Unknown request type")
           /\ answered' = answered + 1
           /\ UNCHANGED BrokerState]_vars

\* C22: a request of an unknown type was answered by a broker that holds a
\* complex subscription and has handled an event.
C22_Witness ==
    /\ last.op = "rejected"
    /\ last.subscription_id = "ping"
    /\ response.status = "error"
    /\ response.text = "Unknown request type"
    /\ Has(complex_subscriptions, "s1")
    /\ events_processed = 1

\* C23: a status request is answered with total_subscriptions equal to the
\* number of entries of the simple map plus that of the complex map and
\* with the present events_processed and notifications_sent, and the step
\* changes neither the matcher nor the addresses nor the counters.
C23_StatusReportsTotals ==
    [][SubscriberHandler(Status) =>
           /\ response'.status = "success"
           /\ response'.statistics.total_subscriptions
                  = Len(simple_subscriptions) + Len(complex_subscriptions)
           /\ response'.statistics.simple_subscriptions = Len(simple_subscriptions)
           /\ response'.statistics.complex_subscriptions = Len(complex_subscriptions)
           /\ response'.statistics.events_processed = events_processed
           /\ response'.statistics.notifications_sent = notifications_sent
           /\ UNCHANGED BrokerState]_vars

\* C23: status was asked after a simple and a complex subscription were
\* added under one id and an event was handled and its notification sent.
C23_Witness ==
    /\ last.op = "status"
    /\ response.statistics.total_subscriptions = 2
    /\ response.statistics.complex_subscriptions = 1
    /\ response.statistics.events_processed = 1
    /\ response.statistics.notifications_sent = 1
    /\ Keys(simple_subscriptions) = {"s1"}
    /\ Keys(complex_subscriptions) = {"s1"}

\* C24: no subscription_id is a key of both the simple map and the complex
\* map.
C24_DisjointMaps == Keys(simple_subscriptions) \cap Keys(complex_subscriptions) = {}

(***************************************************************************)
(* Properties of the window managers of a subscription (SpecWindow)        *)
(***************************************************************************)

\* C25: every registered complex subscription has one WindowManager per
\* windowed condition, and every event that passes its gate and carries a
\* value has added one sample to the window of each windowed condition.
C25_OneManagerPerCondition ==
    \A S \in Registered(complex_subscriptions) :
        /\ Has(window_managers, S.subscription_id)
        /\ Len(Get(window_managers, S.subscription_id)) = Cardinality(WindowedIndexes(S))
        /\ \A c \in WindowedConditions(S) :
              Len(samples[S.subscription_id][c.field_name].values)
                  = samples[S.subscription_id][c.field_name].events

\* The add_value calls of the last match_event for the subscription that
\* filled the window with an aggregate on which the condition is false.
FiredFalse(S) ==
    {i \in CallsFor(S.subscription_id) :
        /\ last.adds[i].window_full
        /\ ~evaluate_windowed_condition(last.adds[i].aggregated_value,
                                        S.conditions[last.adds[i].index])}

\* The add_value calls of the last match_event for the subscription that
\* filled the window with an aggregate on which the condition is true.
FiredTrue(S) ==
    {i \in CallsFor(S.subscription_id) :
        /\ last.adds[i].window_full
        /\ evaluate_windowed_condition(last.adds[i].aggregated_value,
                                       S.conditions[last.adds[i].index])}

\* The buffer of the manager of S for the field.
Buffer(S, field_name) == Get(Get(window_managers, S.subscription_id), field_name).window

\* C30: a window that fills with an aggregate on which its condition is
\* false gives no notification (the complex notifications of a subscription
\* are those of the fills on which the condition is true), and the buffer
\* is cleared all the same: it always holds the samples since the last
\* fill, so the next fill needs N more samples.
C30_FalseAggregateClearsWindow ==
    \A S \in Registered(complex_subscriptions) :
        /\ \A c \in WindowedConditions(S) :
              Len(Buffer(S, c.field_name))
                  = Len(samples[S.subscription_id][c.field_name].values)
                        % S.window_config.window_size
        /\ last.op = "match" =>
              CountFor(last.notifications, "complex", S.subscription_id)
                  = Cardinality(FiredTrue(S))

\* C30: the window of size 2 of a subscription with one windowed condition
\* filled a second time, on its fourth sample, with an aggregate on which
\* the condition is false.
C30_Witness ==
    /\ last.op = "match"
    /\ \E S \in Registered(complex_subscriptions) :
          /\ Cardinality(WindowedIndexes(S)) = 1
          /\ S.window_config.window_size = 2
          /\ FiredFalse(S) # {}
          /\ FiredTrue(S) = {}
          /\ CountFor(last.notifications, "complex", S.subscription_id) = 0
          /\ \E c \in WindowedConditions(S) :
                /\ Len(samples[S.subscription_id][c.field_name].values) = 4
                /\ Buffer(S, c.field_name) = <<>>

(***************************************************************************)
(* The matcher with simple subscriptions and complex subscriptions of two  *)
(* windowed conditions (SpecOrder)                                         *)
(***************************************************************************)

\* A complex subscription with a windowed condition before and one after
\* its category condition, on two field names of one base field.
TwoWindows(id, n) ==
    Sub(id, "COMPLEX", <<Cond(min_rating, "LESS_THAN", v4_5, TRUE),
                         CategoryIsElectronics,
                         Cond(avg_rating, "GREATER_THAN", v3_0, TRUE)>>, n, "avg")

OrderSubscriptions ==
    {SimpleCategory("s1"), SimpleCategory("s2"), TwoWindows("s1", 1), TwoWindows("s2", 2)}

OrderEvents ==
    {UserRating("e1", Electronics, 400),
     UserRating("e2", Electronics, 100),
     UserRating("e3", Clothing, 500)}

NextOrder ==
    \/ \E subscription \in OrderSubscriptions : AddSubscription(subscription) /\ Recorded
    \/ \E subscription_id \in Ids : RemoveSubscription(subscription_id) /\ Recorded
    \/ \E event \in OrderEvents : MatchEvent(event) /\ Recorded

SpecOrder == Init /\ [][NextOrder]_vars

\* The place of the windowed condition on the field among the conditions of
\* the complex subscription registered under the id.
DeclaredAt(subscription_id, field_name) ==
    LET S == Get(complex_subscriptions, subscription_id)
    IN  CHOOSE k \in WindowedIndexes(S) : S.conditions[k].field_name = field_name

\* C26: in the list match_event returns every simple notification comes
\* before every complex one, and the notifications of one complex
\* subscription come in the order in which its windowed conditions are
\* declared.
C26_SimpleThenComplexInOrder ==
    (last.op = "match" /\ ~last.raised) =>
        \A i, j \in 1..Len(last.notifications) :
            LET a == last.notifications[i]
                b == last.notifications[j]
            IN  /\ (a.kind = "simple" /\ b.kind = "complex") => i < j
                /\ (/\ i < j
                    /\ a.kind = "complex"
                    /\ b.kind = "complex"
                    /\ a.subscription_id = b.subscription_id)
                   => DeclaredAt(a.subscription_id, a.field_name)
                          < DeclaredAt(b.subscription_id, b.field_name)

\* C26: one call returned two simple notifications and the two
\* notifications of a complex subscription registered before them.
C26_Witness ==
    /\ last.op = "match"
    /\ Len(last.notifications) >= 4
    /\ CountFor(last.notifications, "simple", "s1") = 1
    /\ CountFor(last.notifications, "simple", "s2") = 1
    /\ CountFor(last.notifications, "complex", "s2") = 2
    /\ Has(complex_subscriptions, "s1")

(***************************************************************************)
(* The matcher with one simple subscription at a time, over the fields,    *)
(* operators and values of a condition (SpecConditions)                    *)
(***************************************************************************)

app == <<"a", "p", "p">>

ProductView(id, cat, d) ==
    [event_type |-> "PRODUCT_VIEW", event_id |-> id,
     product_view |-> [user_id |-> U1, product_id |-> P1, category |-> cat,
                       view_duration |-> d, source |-> app]]

Operators ==
    {"EQUAL", "NOT_EQUAL", "GREATER_THAN", "GREATER_EQUAL", "LESS_THAN", "LESS_EQUAL"}

ConditionFields == NumericFields \cup {category, warehouse_id}

\* Two numbers, and a value float() rejects with ValueError.
ConditionValues == {v500_0, v3_0, Electronics}

\* Subscriptions of one condition, and one with a condition that holds
\* before the condition in question.
ConditionSubscriptions ==
    {Simple("s1", <<Cond(f, op, v, FALSE)>>) :
        f \in ConditionFields, op \in Operators, v \in ConditionValues}
    \cup {Simple("s1", <<CategoryIsElectronics, Cond(f, "NOT_EQUAL", Electronics, FALSE)>>) :
             f \in {warehouse_id, price}}

\* One event of each variant, and purchases at 499.99, 500.0 and 500.01 (of
\* quantity 100); a stock level of 3 and a view of 30 seconds.
ConditionEvents ==
    {UserRating("e1", Electronics, 400),
     Purchase("e4", Electronics, 50001),
     Purchase("e5", Electronics, 50000),
     Purchase("e6", Electronics, 49999),
     InventoryUpdate("e7", Electronics, 300),
     ProductView("e8", Electronics, 3000)}

NextConditions ==
    \/ \E subscription \in ConditionSubscriptions : AddSubscription(subscription) /\ Recorded
    \/ \E subscription_id \in {"s1"} : RemoveSubscription(subscription_id) /\ Recorded
    \/ \E event \in ConditionEvents : MatchEvent(event) /\ Recorded

SpecConditions == Init /\ [][NextConditions]_vars

\* The fields of each event variant.
VariantFields(event_type) ==
    IF event_type = "PURCHASE"
    THEN {user_id, product_id, category, price, quantity, warehouse_id}
    ELSE IF event_type = "PRODUCT_VIEW"
    THEN {user_id, product_id, category, view_duration, source}
    ELSE IF event_type = "INVENTORY_UPDATE"
    THEN {product_id, category, stock_level, warehouse_id, operation}
    ELSE IF event_type = "USER_RATING"
    THEN {user_id, product_id, category, rating, review_text}
    ELSE {}

\* C27: a condition on a field that the variant of the event does not have
\* is false whatever its operator, and a simple subscription that contains
\* one gets no notification for the event.
C27_AbsentFieldIsFalse ==
    last.op = "match" =>
        \A S \in Registered(simple_subscriptions) :
            \A c \in Range(S.conditions) :
                c.field_name \notin VariantFields(last.event.event_type) =>
                    /\ ~evaluate_condition(last.event, c)
                    /\ CountFor(last.notifications, "simple", S.subscription_id) = 0

\* C27: a rating was matched against a simple subscription whose first
\* condition holds and whose second is warehouse_id NOT_EQUAL a value, a
\* field a rating does not have.
C27_Witness ==
    /\ last.op = "match"
    /\ last.event.event_type = "USER_RATING"
    /\ last.notifications = <<>>
    /\ \E S \in Registered(simple_subscriptions) :
          /\ Len(S.conditions) = 2
          /\ evaluate_condition(last.event, S.conditions[1])
          /\ S.conditions[2].field_name = warehouse_id
          /\ S.conditions[2].operator = "NOT_EQUAL"

\* operator on two numbers
Holds(operator, a, b) ==
    CASE operator = "EQUAL"         -> a = b
      [] operator = "NOT_EQUAL"     -> a # b
      [] operator = "GREATER_THAN"  -> a > b
      [] operator = "GREATER_EQUAL" -> ~(a < b)
      [] operator = "LESS_THAN"     -> a < b
      [] operator = "LESS_EQUAL"    -> ~(a > b)

\* C28: for a condition on price, stock_level, rating, quantity or
\* view_duration that the event has, a value that is no number makes the
\* condition false for every operator, GREATER_THAN and LESS_THAN are false
\* on a field equal to the value, and a subscription of that one condition
\* is notified exactly when the operator holds on the two numbers.
C28_NumericComparison ==
    last.op = "match" =>
        \A S \in Registered(simple_subscriptions) :
            \A c \in Range(S.conditions) :
                (/\ c.field_name \in NumericFields
                 /\ c.field_name \in VariantFields(last.event.event_type)) =>
                    LET field_value == extract_field_value(last.event, c.field_name).n
                        notified    == CountFor(last.notifications, "simple",
                                                S.subscription_id)
                    IN  /\ ~ParseFloat(c.value).ok => notified = 0
                        /\ (/\ ParseFloat(c.value).ok
                            /\ c.operator \in {"GREATER_THAN", "LESS_THAN"}
                            /\ field_value = ParseFloat(c.value).n) => notified = 0
                        /\ (ParseFloat(c.value).ok /\ Len(S.conditions) = 1) =>
                              (notified = 1
                                   <=> Holds(c.operator, field_value, ParseFloat(c.value).n))

\* C28: a purchase at 500.0 was matched against price GREATER_THAN "500.0"
\* and gave no notification.
C28_Witness ==
    /\ last.op = "match"
    /\ last.event.event_type = "PURCHASE"
    /\ last.event.purchase.price = 50000
    /\ last.notifications = <<>>
    /\ Registered(simple_subscriptions) =
           {Simple("s1", <<Cond(price, "GREATER_THAN", v500_0, FALSE)>>)}

(***************************************************************************)
(* Properties of the notifications the broker sends (SpecBroker)           *)
(***************************************************************************)

\* The subscriptions of the subscribe requests.
RequestedSubscriptions ==
    {request.subscription :
        request \in {r \in BrokerRequests : r.type = "subscribe" /\ r.subscription # None}}

\* The subscription is one that gives the notification: of its kind, and for
\* a simple notification one that matches the event it carries.
Produces(S, notification) ==
    IF notification.kind = "simple"
    THEN S.type = "SIMPLE" /\ match_simple_subscription(notification.matched_event, S)
    ELSE /\ S.type = "COMPLEX"
         /\ \E c \in WindowedConditions(S) : c.field_name = notification.field_name

\* C29: every notification sent for an event carries the subscription_id
\* and the subscriber_id of a subscription that produces it, and is sent
\* under the topic that is the UTF-8 encoding of that subscriber_id.
C29_AddressedToSubscriber ==
    [][EventHandled =>
           \A i \in 1..Len(egress') :
               /\ \E S \in RequestedSubscriptions :
                     /\ Produces(S, egress'[i].notification)
                     /\ egress'[i].notification.subscription_id = S.subscription_id
                     /\ egress'[i].notification.subscriber_id = S.subscriber_id
                     /\ egress'[i].topic = encode(S.subscriber_id)]_vars

\* C29: an event was sent to the two subscribers that hold a subscription
\* under the one id "s1", each under its own topic.
C29_Witness ==
    /\ Len(egress) = 2
    /\ egress[1].notification.kind = "simple"
    /\ egress[1].notification.subscription_id = "s1"
    /\ egress[1].topic = encode("subscriber-s9")
    /\ egress[2].notification.kind = "complex"
    /\ egress[2].notification.subscription_id = "s1"
    /\ egress[2].topic = encode("subscriber-s1")

(***************************************************************************)
(* The aggregation types (SpecAggregate)                                   *)
(***************************************************************************)

\* The aggregation types a window is configured with: the four the code
\* names and one it does not.
AggregationTypes == {"avg", "max", "min", "sum", "median"}

\* One windowed condition on the rating, under every aggregation type, with
\* windows of 2 and of 3 samples.
AggregateSubscriptions ==
    {Sub("s1", "COMPLEX", <<Cond(avg_rating, "GREATER_THAN", v3_0, TRUE)>>, n, agg) :
        n \in {2, 3}, agg \in AggregationTypes}

\* Ratings 4.0, 1.0 and 5.0.
AggregateEvents ==
    {UserRating("e1", Electronics, 400),
     UserRating("e2", Electronics, 100),
     UserRating("e3", Electronics, 500)}

NextAggregate ==
    \/ \E subscription \in AggregateSubscriptions : AddSubscription(subscription) /\ RecordedWindow
    \/ \E subscription_id \in Ids : RemoveSubscription(subscription_id) /\ RecordedWindow
    \/ \E event \in AggregateEvents : WithinSamples /\ MatchEvent(event) /\ RecordedWindow

SpecAggregate == InitWindow /\ [][NextAggregate]_vars

\* The samples the window of add_value call i of the last match_event held
\* when the call appended its value: the window_size newest values given to
\* that window up to and including call i.
BufferedAt(i) ==
    LET a     == last.adds[i]
        N     == Get(complex_subscriptions, a.subscription_id).window_config.window_size
        later == Cardinality({j \in (i + 1)..Len(last.adds) :
                                 /\ last.adds[j].subscription_id = a.subscription_id
                                 /\ last.adds[j].field_name = a.field_name})
        given == samples[a.subscription_id][a.field_name].values
        upto  == Len(given) - later
    IN  IF upto >= N THEN SubSeq(given, upto - N + 1, upto) ELSE <<>>

\* C33: when a window fires, the aggregate is computed over exactly the
\* window_size buffered samples: their maximum for "max", minimum for "min",
\* sum for "sum", arithmetic mean for "avg", and the arithmetic mean for any
\* other aggregation type; a complex notification carries such an aggregate.
C33_AggregateOverWindow ==
    last.op = "match" =>
        /\ \A i \in 1..Len(last.adds) :
              last.adds[i].window_full =>
                 LET S == Get(complex_subscriptions, last.adds[i].subscription_id)
                     values == BufferedAt(i)
                     num == last.adds[i].aggregated_value.num
                     den == last.adds[i].aggregated_value.den
                 IN  /\ Len(values) = S.window_config.window_size
                     /\ CASE S.window_config.aggregation_type = "max" ->
                                /\ \E v \in Range(values) : num = v * den
                                /\ \A v \in Range(values) : num >= v * den
                          [] S.window_config.aggregation_type = "min" ->
                                /\ \E v \in Range(values) : num = v * den
                                /\ \A v \in Range(values) : num <= v * den
                          [] S.window_config.aggregation_type = "sum" ->
                                num = Total(values) * den
                          [] S.window_config.aggregation_type = "avg" ->
                                num * Len(values) = Total(values) * den
                          [] OTHER ->
                                num * Len(values) = Total(values) * den
        /\ \A k \in 1..Len(last.notifications) :
              last.notifications[k].kind = "complex" =>
                 \E i \in 1..Len(last.adds) :
                    /\ last.adds[i].window_full
                    /\ last.adds[i].subscription_id = last.notifications[k].subscription_id
                    /\ last.adds[i].field_name = last.notifications[k].field_name
                    /\ last.adds[i].aggregated_value = last.notifications[k].aggregated_value

\* C33 witness: a window of three samples of an unrecognized aggregation
\* type fires on samples that are not all equal and notifies.
C33_Witness ==
    /\ last.op = "match"
    /\ \E i \in 1..Len(last.adds) :
          /\ last.adds[i].window_full
          /\ Get(complex_subscriptions, last.adds[i].subscription_id).window_config
                = [window_size |-> 3, aggregation_type |-> "median"]
          /\ Cardinality(Range(BufferedAt(i))) = 3
    /\ last.notifications # <<>>

\* C35: after any sequence of add_subscription and remove_subscription
\* calls, those that raised included, the keys of window_managers are the
\* keys of complex_subscriptions, and every windowed condition of every
\* registered complex subscription has a WindowManager under its
\* field_name, so that match_event finds the manager it looks up.
C35_ManagersMatchRegistry ==
    /\ Keys(window_managers) = Keys(complex_subscriptions)
    /\ \A S \in Registered(complex_subscriptions) :
          \A c \in WindowedConditions(S) :
             /\ Has(window_managers, S.subscription_id)
             /\ Has(Get(window_managers, S.subscription_id), c.field_name)

(***************************************************************************)
(* Adding over buffered samples (SpecReadd)                                *)
(***************************************************************************)

\* Complex subscriptions under one id: one windowed condition with a window
\* of 2 and of 1, and two windowed conditions on the rating.
ReaddSubscriptions ==
    {ComplexAvg("s1"),
     Sub("s1", "COMPLEX", <<Cond(max_price, "GREATER_THAN", v100, TRUE)>>, 1, "max"),
     Sub("s1", "COMPLEX", <<Cond(avg_rating, "GREATER_THAN", v3_0, TRUE),
                            Cond(min_rating, "LESS_THAN", v4_5, TRUE)>>, 2, "avg")}

\* The rest of a step of SpecReadd: the history of the windows, with the
\* samples each add discarded.
RecordedReadd ==
    /\ WindowHistoryRecorded(TRUE)
    /\ UNCHANGED removed
    /\ UNCHANGED workerVars
    /\ UNCHANGED brokerVars
    /\ UNCHANGED outsideVars

NextReadd ==
    \/ \E subscription \in ReaddSubscriptions : AddSubscription(subscription) /\ RecordedReadd
    \/ \E subscription_id \in Ids : RemoveSubscription(subscription_id) /\ RecordedReadd
    \/ \E event \in WindowEvents : WithinSamples /\ MatchEvent(event) /\ RecordedReadd

SpecReadd == InitWindow /\ [][NextReadd]_vars

\* The windows of the subscription registered under the id are all empty.
WindowsEmpty(subscription_id) ==
    Has(window_managers, subscription_id) =>
        \A m \in Registered(Get(window_managers, subscription_id)) : m.window = <<>>

\* C36: whenever a complex subscription is registered under an id, removed
\* before or still registered, its windows start empty: the samples buffered
\* under the id before the add are discarded, and a window that fires after
\* the add has been given window_size samples since the add.
C36_WindowsStartEmpty ==
    /\ (last.op = "add" /\ last.subscription.type # "SIMPLE") => WindowsEmpty(last.subscription_id)
    /\ last.op = "match" =>
          \A i \in 1..Len(last.adds) :
              last.adds[i].window_full =>
                  Len(BufferedAt(i)) =
                      Get(complex_subscriptions, last.adds[i].subscription_id).window_config.window_size

\* C36 witness: a complex subscription was added under an id whose window
\* held a sample, and its window of two samples then fires on the second
\* sample given to it since that add.
C36_Witness ==
    /\ last.op = "match"
    /\ \E i \in 1..Len(last.adds) :
          /\ last.adds[i].window_full
          /\ Get(complex_subscriptions, last.adds[i].subscription_id).window_config.window_size = 2
          /\ samples[last.adds[i].subscription_id][last.adds[i].field_name].discarded = 1
          /\ Len(samples[last.adds[i].subscription_id][last.adds[i].field_name].values) = 2

\* The event carries no value for the base field of the windowed field: the
\* field name with avg_, max_ and min_ removed.
CarriesNoValue(event, field_name) ==
    extract_field_value(event, Remove(Remove(Remove(field_name, avg_), max_), min_)) = None

\* The add_value calls of the call record for the window (id, field_name).
AddsFor(call, subscription_id, field_name) ==
    {i \in 1..Len(call.adds) : /\ call.adds[i].subscription_id = subscription_id
                               /\ call.adds[i].field_name = field_name}

\* C37: for an event that passes a complex subscription's gate but carries
\* no value for the base field of a windowed condition, match_event leaves
\* that condition's window buffer unchanged and returns no notification for
\* it, while the subscription's windowed conditions whose base field the
\* event carries are still sampled.
C37_AbsentValueSkipsCondition ==
    [][last'.op = "match" =>
          \A S \in Registered(complex_subscriptions) :
              non_windowed_match(last'.event, S) =>
                  \A c \in WindowedConditions(S) :
                      IF CarriesNoValue(last'.event, c.field_name)
                      THEN /\ Get(Get(window_managers', S.subscription_id), c.field_name)
                                = Get(Get(window_managers, S.subscription_id), c.field_name)
                           /\ AddsFor(last', S.subscription_id, c.field_name) = {}
                           /\ \A k \in 1..Len(last'.notifications) :
                                 ~ /\ last'.notifications[k].kind = "complex"
                                   /\ last'.notifications[k].subscription_id = S.subscription_id
                                   /\ last'.notifications[k].field_name = c.field_name
                      ELSE AddsFor(last', S.subscription_id, c.field_name) # {}]_vars

\* C37 witness: a match_event whose event passed the gate of a registered
\* complex subscription, carried no value for one of its windowed
\* conditions with a sample in its buffer, and was sampled by another.
C37_Witness ==
    /\ last.op = "match"
    /\ \E S \in Registered(complex_subscriptions) :
          /\ non_windowed_match(last.event, S)
          /\ \E c, d \in WindowedConditions(S) :
                /\ CarriesNoValue(last.event, c.field_name)
                /\ Buffer(S, c.field_name) # <<>>
                /\ AddsFor(last, S.subscription_id, d.field_name) # {}

\* C38: for every window manager with window_size >= 1, after every
\* add_value call, after any sequence of calls, the buffer holds between 0
\* and window_size - 1 samples: it is never left holding window_size
\* samples.
C38_BufferBelowWindowSize ==
    \A subscription_id \in Keys(window_managers) :
        \A m \in Registered(Get(window_managers, subscription_id)) :
            m.window_size >= 1 =>
                /\ Len(m.window) >= 0
                /\ Len(m.window) <= m.window_size - 1

\* C38 witness: after a match_event, a window of size 2 that fired is empty
\* and a window of size 2 that did not fire holds one sample.
C38_Witness ==
    /\ last.op = "match"
    /\ \E i, j \in 1..Len(last.adds) :
          LET held(k) == Get(Get(window_managers, last.adds[k].subscription_id),
                             last.adds[k].field_name)
          IN  /\ last.adds[i].window_full
              /\ held(i).window_size = 2
              /\ held(i).window = <<>>
              /\ ~last.adds[j].window_full
              /\ held(j).window_size = 2
              /\ Len(held(j).window) = 1

\* The event passed the gate of the complex subscription registered under
\* the id.
GatePassed(event, subscription_id) ==
    /\ Has(complex_subscriptions, subscription_id)
    /\ non_windowed_match(event, Get(complex_subscriptions, subscription_id))

\* C39: match_event changes nothing except the window state of the complex
\* subscriptions whose gate the event passed: the simple map, the complex
\* map, the contexts, the set of window managers with their sizes and
\* aggregation types, and the buffers of every other subscription are the
\* same before and after the call, whether or not it raised.
C39_MatchEventFrame ==
    [][last'.op = "match" =>
          /\ simple_subscriptions' = simple_subscriptions
          /\ complex_subscriptions' = complex_subscriptions
          /\ subscription_contexts' = subscription_contexts
          /\ Len(window_managers') = Len(window_managers)
          /\ \A n \in 1..Len(window_managers) :
                LET before == window_managers[n]
                    after  == window_managers'[n]
                IN  /\ after.k = before.k
                    /\ Len(after.v) = Len(before.v)
                    /\ \A f \in 1..Len(before.v) :
                          /\ after.v[f].k = before.v[f].k
                          /\ after.v[f].v.window_size = before.v[f].v.window_size
                          /\ after.v[f].v.aggregation_type = before.v[f].v.aggregation_type
                    /\ ~GatePassed(last'.event, before.k) => after = before]_vars

\* C39 witness: a match_event that sampled the window of one complex
\* subscription while a second complex subscription, whose gate the event
\* did not pass, holds a sample.
C39_Witness ==
    /\ last.op = "match"
    /\ last.adds # <<>>
    /\ \E S \in Registered(complex_subscriptions) :
          /\ ~non_windowed_match(last.event, S)
          /\ ManagersPresent(S)
          /\ \E c \in WindowedConditions(S) : Buffer(S, c.field_name) # <<>>

(***************************************************************************)
(* Requests for other ids while events are matched (SpecConcurrent)        *)
(***************************************************************************)

\* The broker after it served the subscribe request of the simple
\* subscription "s1": the subscription is registered, its address stored,
\* the response sent.
InitConcurrent ==
    /\ simple_subscriptions = Put(<<>>, "s1", SimpleCategory("s1"))
    /\ complex_subscriptions = <<>>
    /\ window_managers = <<>>
    /\ subscription_contexts = <<>>
    /\ last = [NoCall EXCEPT !.op = "add", !.subscription = SimpleCategory("s1"),
                             !.subscription_id = "s1"]
    /\ samples = <<>>
    /\ emitted = <<>>
    /\ removed = {}
    /\ pc = [w \in Workers |-> "poll"]
    /\ it = None
    /\ req = None
    /\ seen = {}
    /\ budget = [w \in Workers |-> IF w = "ingress" THEN MaxEvents ELSE MaxRequests]
    /\ subscriber_addresses = store_address(<<>>, Subscribe(SimpleCategory("s1")), FALSE)
    /\ events_processed = 0
    /\ notifications_sent = 0
    /\ egress = <<>>
    /\ response = response_after(Subscribe(SimpleCategory("s1")), FALSE)
    /\ answered = send_response(0)
    /\ Serving
    /\ NoSubscriber

\* The requests that follow: all of them for the id "s2".
ConcurrentRequests ==
    {Subscribe(SimpleCategory("s2")), Subscribe(ComplexAvg("s2")), Unsubscribe("s2")}

NextConcurrent ==
    \/ \E message \in BrokerMessages : PublisherListener(message) /\ UNCHANGED <<historyVars, outsideVars>>
    \/ MatchEventSimpleLoop /\ UNCHANGED <<historyVars, outsideVars>>
    \/ MatchEventComplexLoop /\ UNCHANGED <<historyVars, outsideVars>>
    \/ MatchComplexWindowedLoop /\ UNCHANGED <<historyVars, outsideVars>>
    \/ \E request \in ConcurrentRequests : SubscriberHandler(request) /\ UNCHANGED <<historyVars, outsideVars>>
    \/ AddSubscriptionStore /\ UNCHANGED <<historyVars, outsideVars>>
    \/ SetupWindowManagers /\ UNCHANGED <<historyVars, outsideVars>>
    \/ SetupContexts /\ UNCHANGED <<historyVars, outsideVars>>
    \/ SetupCondition /\ UNCHANGED <<historyVars, outsideVars>>
    \/ RemoveSubscriptionEntry /\ UNCHANGED <<historyVars, outsideVars>>
    \/ RemoveWindowManagers /\ UNCHANGED <<historyVars, outsideVars>>
    \/ RemoveContexts /\ UNCHANGED <<historyVars, outsideVars>>

SpecConcurrent == InitConcurrent /\ [][NextConcurrent]_vars

\* C34: while a simple subscription stays registered (no request names its
\* id), every event the broker has handled on which all its conditions hold
\* has a notification for it among those passed to the egress socket,
\* whatever subscribe and unsubscribe requests for other ids the control
\* worker serves meanwhile.
C34_MatchedSimpleNotified ==
    [][EventHandled =>
          \A S \in Registered(simple_subscriptions) :
              (/\ S.subscription_id \notin {request.subscription_id : request \in ConcurrentRequests}
               /\ match_simple_subscription(it.event, S)) =>
                  \E k \in 1..Len(egress') :
                      /\ egress'[k].notification.kind = "simple"
                      /\ egress'[k].notification.subscription_id = S.subscription_id]_vars

(***************************************************************************)
(* start() and stop() of the broker (SpecLifecycle)                        *)
(*                                                                         *)
(* Time is counted in seconds.  A thread is at "setup" (before its loop),  *)
(* at "loop" (about to test self.running), "waiting" (in the poll or sleep *)
(* of its loop, wait[t] seconds of it left) or "exited".  A step that      *)
(* takes no time happens before the next second passes.                    *)
(***************************************************************************)

\* How many times stop() is called.
MaxStops == 2

ThreadNames == {Threads[i] : i \in 1..Len(Threads)}

\* The threads whose loop waits in poll(), which returns as soon as a
\* message is there, the socket fails or the context terminates.
Pollers == {"publisher", "subscriber"}

\* threading.Thread.is_alive
is_alive(thread) == threads[thread] # "exited"

\* Mutant: a close() that raises on a socket that is closed already.
close_once(socket) ==
    [state |-> "closed", err |-> socket = "closed"]

\* zmq.Socket.close of the sockets stop() closes: a socket that is None is
\* passed over by stop(), and closing a closed socket does nothing.
close(socket) ==
    [state |-> IF socket = "open" THEN "closed" ELSE socket, err |-> FALSE]

\* zmq.Context.term: a terminated context stays terminated.
term(ctx) == "terminated"

\* start(): running = True, _setup_sockets(), the four threads are made and
\* started.  Called once, on a broker that was not stopped before.
Start ==
    /\ caller.pc = "idle"
    /\ caller.calls = 0
    /\ DOMAIN threads = {}
    /\ running' = TRUE
    /\ sockets' = [sockets EXCEPT !.publisher_socket = "open", !.subscriber_socket = "open",
                                  !.peer_sockets = "open"]
    /\ threads' = [t \in ThreadNames |-> IF t = "subscriber" THEN "setup" ELSE "loop"]
    /\ wait' = [t \in ThreadNames |-> 0]
    /\ UNCHANGED <<context, caller>>

\* _subscriber_handler before its loop: the REP socket is made and bound.
SubscriberSetup ==
    /\ DOMAIN threads # {}
    /\ threads["subscriber"] = "setup"
    /\ sockets' = [sockets EXCEPT !.sub_mgmt_socket = "open"]
    /\ threads' = [threads EXCEPT !["subscriber"] = "loop"]
    /\ UNCHANGED <<running, wait, context, caller>>

\* The test of a thread's while self.running: the loop body blocks in its
\* poll or sleep, or the thread leaves the loop; _subscriber_handler then
\* closes its socket.
WorkerLoop(thread) ==
    /\ DOMAIN threads # {}
    /\ threads[thread] = "loop"
    /\ IF running
       THEN /\ threads' = [threads EXCEPT ![thread] = "waiting"]
            /\ wait' = [wait EXCEPT ![thread] = Period(thread)]
            /\ UNCHANGED sockets
       ELSE /\ threads' = [threads EXCEPT ![thread] = "exited"]
            /\ sockets' = IF thread = "subscriber"
                          THEN [sockets EXCEPT !.sub_mgmt_socket = close(@).state]
                          ELSE sockets
            /\ UNCHANGED wait
    /\ UNCHANGED <<running, context, caller>>

\* The poll or sleep of a thread's loop returns: a sleep when its time is
\* over, a poll then or earlier.  What was received is handled and the
\* thread is back at the test of self.running.
WorkerWake(thread) ==
    /\ DOMAIN threads # {}
    /\ threads[thread] = "waiting"
    /\ wait[thread] = 0 \/ thread \in Pollers
    /\ threads' = [threads EXCEPT ![thread] = "loop"]
    /\ wait' = [wait EXCEPT ![thread] = 0]
    /\ UNCHANGED <<running, sockets, context, caller>>

\* stop(): self.running = False
StopBegin ==
    /\ caller.pc = "idle"
    /\ caller.calls < MaxStops
    /\ running' = FALSE
    /\ caller' = [caller EXCEPT !.pc = "join", !.i = 1, !.calls = @ + 1]
    /\ UNCHANGED <<threads, wait, sockets, context>>

\* stop(): one round of for thread in self.threads: a thread that is alive
\* is joined with a timeout.
JoinNext ==
    /\ caller.pc = "join"
    /\ IF DOMAIN threads = {} \/ caller.i > Len(Threads)
       THEN caller' = [caller EXCEPT !.pc = "close"]
       ELSE IF is_alive(Threads[caller.i])
       THEN caller' = [caller EXCEPT !.pc = "joining", !.timeout = JoinTimeout]
       ELSE caller' = [caller EXCEPT !.i = @ + 1]
    /\ UNCHANGED <<running, threads, wait, sockets, context>>

\* thread.join(timeout=1.0) returns: the thread has exited or the timeout is
\* over.
JoinReturn ==
    /\ caller.pc = "joining"
    /\ ~is_alive(Threads[caller.i]) \/ caller.timeout = 0
    /\ caller' = [caller EXCEPT !.pc = "join", !.i = @ + 1, !.timeout = 0]
    /\ UNCHANGED <<running, threads, wait, sockets, context>>

\* stop(): the sockets that are set are closed; an exception of close()
\* leaves stop().
CloseSockets ==
    /\ caller.pc = "close"
    /\ LET publisher  == close(sockets.publisher_socket)
           subscriber == close(sockets.subscriber_socket)
           peers      == close(sockets.peer_sockets)
       IN  IF sockets.publisher_socket # "none" /\ publisher.err
           THEN /\ caller' = [caller EXCEPT !.pc = "idle", !.raised = TRUE]
                /\ UNCHANGED sockets
           ELSE /\ sockets' = [sockets EXCEPT !.publisher_socket = publisher.state,
                                              !.subscriber_socket = subscriber.state,
                                              !.peer_sockets = peers.state]
                /\ caller' = [caller EXCEPT !.pc = "term"]
    /\ UNCHANGED <<running, threads, wait, context>>

\* stop(): self.context.term() returns once every socket of the context is
\* closed, and stop() returns.
Term ==
    /\ caller.pc = "term"
    /\ sockets.sub_mgmt_socket # "open"
    /\ context' = term(context)
    /\ caller' = [caller EXCEPT !.pc = "idle", !.returned = @ + 1]
    /\ UNCHANGED <<running, threads, wait, sockets>>

\* A second passes: no thread is at a step that takes no time, no wait is
\* over, and the caller is in a join that goes on or in a term() that
\* waits, or not in stop() at all.
Tick ==
    /\ \A t \in DOMAIN threads : threads[t] \in {"waiting", "exited"}
    /\ \A t \in DOMAIN threads : threads[t] = "waiting" => wait[t] > 0
    /\ caller.pc \in {"idle", "joining", "term"}
    /\ caller.pc = "joining" => (caller.timeout > 0 /\ is_alive(Threads[caller.i]))
    /\ caller.pc = "term" => sockets.sub_mgmt_socket = "open"
    /\ \/ \E t \in DOMAIN threads : threads[t] = "waiting"
       \/ caller.pc = "joining"
    /\ wait' = [t \in DOMAIN wait |-> IF threads[t] = "waiting" THEN wait[t] - 1 ELSE wait[t]]
    /\ caller' = IF caller.pc = "joining" THEN [caller EXCEPT !.timeout = @ - 1] ELSE caller
    /\ UNCHANGED <<running, threads, sockets, context>>

\* The matcher and the workers' counters stand still.
Standing ==
    UNCHANGED <<matcherVars, last, historyVars, workerVars, brokerVars, subscriberVars>>

NextLifecycle ==
    \/ Start /\ Standing
    \/ SubscriberSetup /\ Standing
    \/ \E thread \in ThreadNames : WorkerLoop(thread) /\ Standing
    \/ \E thread \in ThreadNames : WorkerWake(thread) /\ Standing
    \/ StopBegin /\ Standing
    \/ JoinNext /\ Standing
    \/ JoinReturn /\ Standing
    \/ CloseSockets /\ Standing
    \/ Term /\ Standing
    \/ Tick /\ Standing

SpecLifecycle == Init /\ [][NextLifecycle]_vars

\* The stopped state: running is False, no socket is open, the context is
\* terminated.
Stopped ==
    /\ running = FALSE
    /\ \A s \in DOMAIN sockets : sockets[s] \in {"none", "closed"}
    /\ context = "terminated"

\* C31: stop() is idempotent: no call of stop() raises, once a call has
\* returned the broker is stopped, and a later call, or a call on a broker
\* that was never started, leaves it stopped throughout and when it returns.
C31_StopIdempotent ==
    /\ ~caller.raised
    /\ caller.returned >= 1 => Stopped
    /\ caller.pc = "idle" => caller.returned = caller.calls

\* C31 witness: the second stop() of a broker that was started has returned.
C31_Witness ==
    /\ caller.pc = "idle"
    /\ caller.returned = 2
    /\ DOMAIN threads # {}

\* C31 witness on a broker never started: stop() has returned.
C31_WitnessNeverStarted ==
    /\ caller.pc = "idle"
    /\ caller.returned >= 1
    /\ DOMAIN threads = {}

\* C32: by the time stop() closes the sockets, and from then on, every
\* thread start() started has left its loop.
C32_WorkersExitedBeforeRelease ==
    (caller.pc \in {"close", "term"} \/ caller.returned >= 1) =>
        \A t \in DOMAIN threads : ~is_alive(t)

(***************************************************************************)
(* The subscriber's management requests (SpecSubscriber)                   *)
(***************************************************************************)

\* How many calls of _register_subscription, unsubscribe and
\* get_broker_statistics the subscriber makes.
MaxCalls == 3

\* The brokers the subscriber is started with (broker_ports).
BrokerPorts == <<"broker1", "broker2">>

\* A REQ socket: ready to send or awaiting the reply to the request sent;
\* the requests it sent, the replies it received, whether a reply has
\* arrived and was not received yet, and the sends it refused.
ReqSocket == [state |-> "ready", sent |-> 0, received |-> 0, reply |-> FALSE, refused |-> 0]

\* Mutant: a REQ socket that sends whatever its state (ZMQ_REQ_RELAXED).
send_relaxed(socket) ==
    [socket |-> [socket EXCEPT !.state = "awaiting", !.sent = @ + 1], err |-> FALSE]

\* socket.send on a REQ socket, which the subscriber leaves strict: a send
\* while the reply to the last request has not been received raises
\* ZMQError (EFSM) and sends nothing.
send(socket) ==
    IF socket.state = "ready"
    THEN [socket |-> [socket EXCEPT !.state = "awaiting", !.sent = @ + 1], err |-> FALSE]
    ELSE [socket |-> [socket EXCEPT !.refused = @ + 1], err |-> TRUE]

\* socket.recv of the reply that poll() found
recv(socket) == [socket EXCEPT !.state = "ready", !.received = @ + 1, !.reply = FALSE]

\* EcommerceSubscriber.start: one REQ socket per broker port.
InitSubscriber ==
    /\ MatcherInit
    /\ samples = <<>>
    /\ emitted = <<>>
    /\ removed = {}
    /\ NoWorkers
    /\ BrokerInit
    /\ NotStarted
    /\ management_sockets = [i \in 1..Len(BrokerPorts) |-> ReqSocket]
    /\ active_subscriptions = {}
    /\ client = [pc |-> "idle", op |-> "", subscription_id |-> "", i |-> 0, calls |-> 0]

\* A call begins its loop over management_sockets.
Call(op, subscription_id) ==
    client' = [pc |-> "send", op |-> op, subscription_id |-> subscription_id, i |-> 1,
               calls |-> client.calls + 1]

\* _register_subscription(subscription): the subscription is noted as
\* active, then registered with every broker.
RegisterSubscription(subscription_id) ==
    /\ client.pc = "idle"
    /\ client.calls < MaxCalls
    /\ active_subscriptions' = active_subscriptions \cup {subscription_id}
    /\ Call("subscribe", subscription_id)
    /\ UNCHANGED management_sockets

\* unsubscribe(subscription_id): returns at once for an id that is not
\* active.
UnsubscribeCall(subscription_id) ==
    /\ client.pc = "idle"
    /\ client.calls < MaxCalls
    /\ IF subscription_id \in active_subscriptions
       THEN Call("unsubscribe", subscription_id)
       ELSE client' = [client EXCEPT !.calls = @ + 1]
    /\ UNCHANGED <<management_sockets, active_subscriptions>>

\* get_broker_statistics()
GetBrokerStatistics ==
    /\ client.pc = "idle"
    /\ client.calls < MaxCalls
    /\ Call("status", "")
    /\ UNCHANGED <<management_sockets, active_subscriptions>>

\* One round of for socket in self.management_sockets: socket.send(request);
\* what it raises is caught and the loop goes on.  After the loop
\* unsubscribe deletes the id from active_subscriptions.
SendRequest ==
    /\ client.pc = "send"
    /\ IF client.i > Len(management_sockets)
       THEN /\ client' = [client EXCEPT !.pc = "idle"]
            /\ active_subscriptions' = IF client.op = "unsubscribe"
                                       THEN active_subscriptions \ {client.subscription_id}
                                       ELSE active_subscriptions
            /\ UNCHANGED management_sockets
       ELSE LET r == send(management_sockets[client.i]) IN
            /\ management_sockets' = [management_sockets EXCEPT ![client.i] = r.socket]
            /\ client' = IF r.err THEN [client EXCEPT !.i = @ + 1]
                         ELSE [client EXCEPT !.pc = "poll"]
            /\ UNCHANGED active_subscriptions

\* socket.poll(5000) finds the reply and socket.recv() takes it.
PollReply ==
    /\ client.pc = "poll"
    /\ management_sockets[client.i].reply
    /\ management_sockets' = [management_sockets EXCEPT ![client.i] = recv(@)]
    /\ client' = [client EXCEPT !.pc = "send", !.i = @ + 1]
    /\ UNCHANGED active_subscriptions

\* socket.poll(5000) returns after 5 seconds without a reply: the loop goes
\* on to the next socket.
PollTimedOut ==
    /\ client.pc = "poll"
    /\ ~management_sockets[client.i].reply
    /\ client' = [client EXCEPT !.pc = "send", !.i = @ + 1]
    /\ UNCHANGED <<management_sockets, active_subscriptions>>

\* The reply of the broker to the request outstanding on socket i arrives.
ReplyArrives(i) ==
    /\ management_sockets[i].state = "awaiting"
    /\ ~management_sockets[i].reply
    /\ management_sockets' = [management_sockets EXCEPT ![i].reply = TRUE]
    /\ UNCHANGED <<active_subscriptions, client>>

\* The matcher and the broker stand still.
BrokerStanding ==
    UNCHANGED <<matcherVars, last, historyVars, workerVars, brokerVars, lifecycleVars>>

NextSubscriber ==
    \/ \E subscription_id \in Ids : RegisterSubscription(subscription_id) /\ BrokerStanding
    \/ \E subscription_id \in Ids : UnsubscribeCall(subscription_id) /\ BrokerStanding
    \/ GetBrokerStatistics /\ BrokerStanding
    \/ SendRequest /\ BrokerStanding
    \/ PollReply /\ BrokerStanding
    \/ PollTimedOut /\ BrokerStanding
    \/ \E i \in 1..Len(BrokerPorts) : ReplyArrives(i) /\ BrokerStanding

SpecSubscriber == InitSubscriber /\ [][NextSubscriber]_vars

====
